---------------------------- MODULE Spec2Model ----------------------------
(***************************************************************************)
(* Shipwright: the POST /api/agent route (payment gate, orchestrator run,  *)
(* credit consumption), the orchestrator with its two AI agents and the    *)
(* template generators it falls back to.                                   *)
(*                                                                         *)
(* Texts (README, HTML, JSON, .env) are TLA+ strings built by the same     *)
(* interpolations as the template literals of the source; static markup    *)
(* that carries no data is shortened to a tag that keeps two templates     *)
(* apart.  "" models "", null and undefined of a string-typed value.       *)
(***************************************************************************)
EXTENDS Integers, Sequences, FiniteSets, TLC

(***************************************************************************)
(* Generic helpers                                                         *)
(***************************************************************************)

\* null / undefined of an object-typed value
Null == [isNull |-> TRUE]

\* a || b on strings: the empty string is falsy
OrElse(a, b) == IF a # "" THEN a ELSE b

RECURSIVE Join(_, _)
\* Array.prototype.join
Join(seq, sep) ==
    IF Len(seq) = 0 THEN ""
    ELSE IF Len(seq) = 1 THEN seq[1]
    ELSE seq[1] \o sep \o Join(Tail(seq), sep)

RECURSIVE Str(_)
\* the string spelled by a sequence of characters
Str(chars) == IF Len(chars) = 0 THEN "" ELSE chars[1] \o Str(Tail(chars))

\* Array.prototype.slice(0, n)
Slice(seq, n) == SubSeq(seq, 1, IF Len(seq) < n THEN Len(seq) ELSE n)

\* Array.prototype.includes
SeqIncludes(seq, x) == \E i \in 1..Len(seq) : seq[i] = x

\* JSON.stringify of a flat object given as a sequence of <<key, value>> pairs
JsonObject(pairs) ==
    "{" \o Join([i \in 1..Len(pairs) |->
                   "\"" \o pairs[i][1] \o "\": \"" \o pairs[i][2] \o "\""], ", ") \o "}"

UpperAlphabet == <<"A","B","C","D","E","F","G","H","I","J","K","L","M",
                   "N","O","P","Q","R","S","T","U","V","W","X","Y","Z">>
LowerAlphabet == <<"a","b","c","d","e","f","g","h","i","j","k","l","m",
                   "n","o","p","q","r","s","t","u","v","w","x","y","z">>

\* the lower-case letter of each upper-case letter
LowerCaseOf ==
    [c \in { UpperAlphabet[k] : k \in 1..Len(UpperAlphabet) } |->
        LowerAlphabet[CHOOSE k \in 1..Len(UpperAlphabet) : UpperAlphabet[k] = c]]

\* String.prototype.toLowerCase, on a sequence of characters
ToLowerCase(chars) ==
    [i \in 1..Len(chars) |->
        IF chars[i] \in DOMAIN LowerCaseOf THEN LowerCaseOf[chars[i]] ELSE chars[i]]

\* String.prototype.includes, on sequences of characters
Includes(chars, sub) ==
    \E i \in 1..(Len(chars) - Len(sub) + 1) : SubSeq(chars, i, i + Len(sub) - 1) = sub

(***************************************************************************)
(* Repositories the requests are about.  A repository is what the GitHub   *)
(* client can read of it: package.json ("missing", "malformed" or "ok"     *)
(* with its parsed content), the Dockerfile and the three env files (each  *)
(* a sequence of lines; a line carries the variable name the env-line      *)
(* pattern of detectEnvVars captures on it, <<>> when it does not match).  *)
(***************************************************************************)

API_KEY == <<"A","P","I","_","K","E","Y">>
DB_HOST == <<"D","B","_","H","O","S","T">>
PORT    == <<"P","O","R","T">>

NoScripts == [build |-> "", start |-> "", dev |-> ""]

RepoNext ==
    [name |-> "shop", pkgFile |-> "ok",
     pkg |-> [hasDependencies |-> TRUE, dependencies |-> {"next", "react"},
              hasDevDependencies |-> FALSE, devDependencies |-> {},
              scripts |-> NoScripts, mentionsNextConfig |-> FALSE],
     hasDockerfile |-> FALSE,
     envFiles |-> << <<>>, <<>>, <<>> >>]

RepoReact ==
    [name |-> "blog", pkgFile |-> "ok",
     pkg |-> [hasDependencies |-> TRUE, dependencies |-> {"react", "express"},
              hasDevDependencies |-> TRUE, devDependencies |-> {"vite"},
              scripts |-> [build |-> "vite build", start |-> "node server.js", dev |-> "vite"],
              mentionsNextConfig |-> FALSE],
     hasDockerfile |-> TRUE,
     envFiles |-> << <<API_KEY, <<>>, DB_HOST>>, <<>>, <<PORT, API_KEY>> >>]

RepoBare ==
    [name |-> "tool", pkgFile |-> "missing", pkg |-> Null,
     hasDockerfile |-> FALSE,
     envFiles |-> << <<>>, <<>>, <<>> >>]

\* package.json is there but JSON.parse rejects it
RepoBroken ==
    [name |-> "draft", pkgFile |-> "malformed", pkg |-> Null,
     hasDockerfile |-> TRUE,
     envFiles |-> << <<PORT>>, <<>>, <<>> >>]

\* the bodies a valid request may carry: the repository it names and the
\* optional description ("" when it is left out)
Bodies ==
    { [repo |-> RepoNext,  description |-> ""],
      [repo |-> RepoNext,  description |-> "A demo project"],
      [repo |-> RepoReact, description |-> ""],
      [repo |-> RepoBare,  description |-> "A demo project"],
      [repo |-> RepoBroken, description |-> ""] }

(***************************************************************************)
(* RepoAnalyzer                                                            *)
(***************************************************************************)

\* RepoAnalyzer.getPackageJson: null when the file is missing or does not parse
getPackageJson(repo) == IF repo.pkgFile = "ok" THEN repo.pkg ELSE Null

\* { ...dependencies, ...devDependencies }
MergedDeps(packageJson) ==
    (IF packageJson.hasDependencies THEN packageJson.dependencies ELSE {})
        \cup (IF packageJson.hasDevDependencies THEN packageJson.devDependencies ELSE {})

NoDependencyMaps(packageJson) ==
    \/ packageJson = Null
    \/ (~packageJson.hasDependencies /\ ~packageJson.hasDevDependencies)

detectFramework(packageJson) ==
    IF NoDependencyMaps(packageJson) THEN "Unknown"
    ELSE LET deps == MergedDeps(packageJson) IN
         IF "next" \in deps THEN "Next.js"
         ELSE IF "react" \in deps THEN "React"
         ELSE IF "vue" \in deps THEN "Vue"
         ELSE IF "svelte" \in deps THEN "Svelte"
         ELSE IF "nuxt" \in deps THEN "Nuxt"
         ELSE IF "gatsby" \in deps THEN "Gatsby"
         ELSE IF "remix" \in deps THEN "Remix"
         ELSE IF "astro" \in deps THEN "Astro"
         ELSE "Node.js"

detectPackageManager(packageJson) == "npm"

\* the backend type when a manifest without dependency maps counts as a server
detectBackendTypeNode(packageJson) ==
    IF NoDependencyMaps(packageJson) THEN "Node.js"
    ELSE LET deps == MergedDeps(packageJson) IN
         IF "express" \in deps THEN "Express" ELSE "Frontend"

detectBackendType(packageJson) ==
    IF NoDependencyMaps(packageJson) THEN "Frontend"
    ELSE LET deps == MergedDeps(packageJson) IN
         IF "express" \in deps THEN "Express"
         ELSE IF "fastify" \in deps THEN "Fastify"
         ELSE IF "hapi" \in deps THEN "Hapi"
         ELSE IF "koa" \in deps THEN "Koa"
         ELSE IF "@nestjs/core" \in deps THEN "NestJS"
         ELSE IF "fastapi" \in deps THEN "FastAPI"
         ELSE IF "rails" \in deps THEN "Rails"
         ELSE IF "django" \in deps THEN "Django"
         ELSE "Frontend"

\* packageJson?.scripts?.<name>, "" when there is none
Script(packageJson, name) ==
    IF packageJson = Null THEN ""
    ELSE CASE name = "build" -> packageJson.scripts.build
           [] name = "start" -> packageJson.scripts.start
           [] name = "dev"   -> packageJson.scripts.dev

RECURSIVE AddAll(_, _)
\* Set.add of every matching line, in insertion order
AddAll(vars, lines) ==
    IF Len(lines) = 0 THEN vars
    ELSE LET m == lines[1] IN
         AddAll(IF m # <<>> /\ ~SeqIncludes(vars, m) THEN Append(vars, m) ELSE vars,
                Tail(lines))

detectEnvVars(repo) ==
    AddAll(AddAll(AddAll(<<>>, repo.envFiles[1]), repo.envFiles[2]), repo.envFiles[3])

checkMissingConfigs(packageJson, framework, hasDocker) ==
    LET m1 == IF Script(packageJson, "build") = "" THEN <<"build script">> ELSE <<>>
        m2 == IF Script(packageJson, "start") = "" THEN <<"start script">> ELSE <<>>
        m3 == IF ~hasDocker /\ Script(packageJson, "dev") = "" THEN <<"dev script">> ELSE <<>>
        m4 == IF framework = "Next.js"
                 /\ ~(packageJson # Null /\ packageJson.mentionsNextConfig)
              THEN <<"next.config.js">> ELSE <<>>
    IN m1 \o m2 \o m3 \o m4

\* the score when five detected variables already count as many
calculateRiskScoreFromFive(buildScript, hasDocker, envVarsCount, missingConfigsCount) ==
    LET score == (IF buildScript = "" THEN 20 ELSE 0)
                 + (IF ~hasDocker THEN 10 ELSE 0)
                 + (IF missingConfigsCount > 0 THEN missingConfigsCount * 5 ELSE 0)
                 + (IF envVarsCount >= 5 THEN 15 ELSE 0)
    IN IF score < 100 THEN score ELSE 100

calculateRiskScore(buildScript, hasDocker, envVarsCount, missingConfigsCount) ==
    LET score == (IF buildScript = "" THEN 20 ELSE 0)
                 + (IF ~hasDocker THEN 10 ELSE 0)
                 + (IF missingConfigsCount > 0 THEN missingConfigsCount * 5 ELSE 0)
                 + (IF envVarsCount > 5 THEN 15 ELSE 0)
    IN IF score < 100 THEN score ELSE 100

analyze(repo) ==
    LET packageJson == getPackageJson(repo)
        hasDocker == repo.hasDockerfile
        envVars == detectEnvVars(repo)
        framework == detectFramework(packageJson)
        packageManager == detectPackageManager(packageJson)
        backendType == detectBackendType(packageJson)
        buildScript == Script(packageJson, "build")
        missingConfigs == checkMissingConfigs(packageJson, framework, hasDocker)
    IN [framework |-> framework,
        packageManager |-> packageManager,
        backendType |-> backendType,
        hasDocker |-> hasDocker,
        envVarsDetected |-> envVars,
        buildScript |-> buildScript,
        missingConfigs |-> missingConfigs,
        deploymentRiskScore |->
            calculateRiskScore(buildScript, hasDocker, Len(envVars), Len(missingConfigs)),
        description |-> framework \o " project with " \o packageManager
                                  \o " and " \o backendType]

(***************************************************************************)
(* Template generators                                                     *)
(***************************************************************************)

\* lib/generators/readme.ts: a string template that interpolates the
\* analysis fields and the optional description
generateReadme(repoName, analysis, description) ==
    "# " \o repoName \o "\n\n" \o OrElse(description, analysis.description)
        \o "\n\n## Tech Stack\n" \o analysis.framework \o ", " \o analysis.packageManager
        \o ", " \o analysis.backendType
        \o "\n\n[generators/readme]"

getEnvVarHint(envVar) ==
    LET lowerVar == ToLowerCase(envVar) IN
    IF Includes(lowerVar, <<"k","e","y">>) THEN "your-key-here"
    ELSE IF Includes(lowerVar, <<"s","e","c","r","e","t">>) THEN "your-secret-here"
    ELSE IF Includes(lowerVar, <<"u","r","l">>) \/ Includes(lowerVar, <<"u","r","i">>)
         THEN "https://example.com"
    ELSE IF Includes(lowerVar, <<"t","o","k","e","n">>) THEN "your-token-here"
    ELSE IF Includes(lowerVar, <<"i","d">>) THEN "your-id-here"
    ELSE IF Includes(lowerVar, <<"p","a","s","s","w","o","r","d">>)
            \/ Includes(lowerVar, <<"p","w","d">>) THEN "your-password-here"
    ELSE IF Includes(lowerVar, <<"h","o","s","t">>) \/ Includes(lowerVar, <<"d","b">>)
         THEN "localhost"
    ELSE IF Includes(lowerVar, <<"p","o","r","t">>) THEN "3000"
    ELSE IF Includes(lowerVar, <<"e","n","v">>) THEN "development"
    ELSE ""

generateEnvTemplate(analysis) ==
    IF Len(analysis.envVarsDetected) = 0 THEN "# Add your environment variables here\n"
    ELSE "# Environment variables\n"
         \o "# Copy this file to .env.local and fill in the values\n\n"
         \o Join([i \in 1..Len(analysis.envVarsDetected) |->
                    Str(analysis.envVarsDetected[i]) \o "="
                        \o getEnvVarHint(analysis.envVarsDetected[i])], "\n")
         \o "\n"

generateVercelJsonFile(analysis) ==
    IF analysis.framework # "Next.js" THEN ""
    ELSE JsonObject((IF analysis.buildScript # ""
                     THEN << <<"buildCommand", "npm run build">> >> ELSE <<>>)
                    \o << <<"outputDirectory", ".next">>,
                          <<"installCommand", "npm install">>,
                          <<"devCommand", "npm run dev">>,
                          <<"framework", "nextjs">> >>)

\* a Record<string, string> is the set of its <<key, value>> entries
generatePackageJsonScripts(analysis) ==
    IF analysis.buildScript = "" /\ analysis.framework = "Next.js"
    THEN {<<"build", "next build">>, <<"start", "next start">>, <<"dev", "next dev">>}
    ELSE IF analysis.buildScript = "" /\ analysis.framework = "React"
    THEN {<<"build", "vite build">>, <<"start", "npm run build && npm run preview">>,
          <<"dev", "vite">>}
    ELSE {}

\* the badges both landing pages print for the analysis
TechBadges(analysis) ==
    "<badge>" \o analysis.framework \o "</badge><badge>" \o analysis.packageManager
        \o "</badge><badge>" \o analysis.backendType \o "</badge>"
        \o (IF analysis.hasDocker THEN "<badge>Docker</badge>" ELSE "")

\* lib/generators/landing.ts
generateLandingPage(repoName, analysis, description) ==
    "<html><title>" \o repoName \o "</title><nav>" \o repoName \o "</nav>"
        \o "<hero><h1>" \o repoName \o "</h1><p>"
        \o OrElse(description, analysis.description) \o "</p>"
        \o "<a href=https://github.com>View on GitHub</a><a href=#>Get Started</a></hero>"
        \o "<features><card>zap Fast</card><card>wrench Flexible</card>"
        \o "<card>package Production Ready</card></features>"
        \o "<tech>" \o TechBadges(analysis) \o "</tech>"
        \o "<footer>2024 " \o repoName \o ". Built with Shipwright.</footer></html>"

\* JSON.stringify / JSON.parse of a plain object of strings and string arrays:
\* the text is kept as the tagged value it encodes
JSONstringify(value) == <<"json", value>>
JSONparse(text) == text[2]

\* vercel-config.ts getOutputDirectory
getOutputDirectory(framework) ==
    CASE framework = "Next.js" -> ".next"
      [] framework \in {"React", "Vite"} -> "dist"
      [] framework = "Gatsby" -> "public"
      [] framework = "Nuxt" -> "dist"
      [] OTHER -> "dist"

\* vercel-config.ts getFrameworkConfig
getFrameworkConfig(framework) ==
    CASE framework = "Next.js" -> "nextjs"
      [] framework = "React" -> "react"
      [] framework = "Vue" -> "vue"
      [] framework = "Svelte" -> "svelte"
      [] framework = "Astro" -> "astro"
      [] OTHER -> ""

\* vercel-config.ts generateVercelConfig, which no route and no agent calls;
\* no build script of the family contains "npm run ", so replace() leaves it as
\* it is; `env` is <<>> when the key is not set
generateVercelConfig(analysis) ==
    JSONstringify(
        [buildCommand |-> IF analysis.buildScript # ""
                          THEN "npm run " \o analysis.buildScript
                          ELSE "npm run build",
         outputDirectory |-> getOutputDirectory(analysis.framework),
         framework |-> getFrameworkConfig(analysis.framework),
         env |-> IF Len(analysis.envVarsDetected) > 0
                 THEN [i \in 1..Len(analysis.envVarsDetected) |->
                         <<Str(analysis.envVarsDetected[i]),
                           "@" \o Str(analysis.envVarsDetected[i])>>]
                 ELSE <<>>])

\* `copy` of buildLandingPage when no field of it is set
NoCopy == [headline |-> "", subheadline |-> "", features |-> <<>>, hasFeatures |-> FALSE]

\* ["⚡", "🔧", "📦"][i] || "✨"
FeatureIcon(i) == IF i = 1 THEN "zap" ELSE IF i = 2 THEN "wrench"
                  ELSE IF i = 3 THEN "package" ELSE "sparkles"

\* orchestrator.ts buildLandingPage; landingPageCopyJson is <<>> when undefined
buildLandingPage(repoName, analysis, landingPageCopyJson, description) ==
    LET copy == IF landingPageCopyJson = <<>> THEN NoCopy
                ELSE JSONparse(landingPageCopyJson)
        headline == OrElse(copy.headline, repoName)
        subheadline == OrElse(copy.subheadline, OrElse(description, analysis.description))
        features == IF copy.hasFeatures THEN copy.features
                    ELSE <<"Fast and performant", "Production ready", "Easy to deploy">>
    IN "<html><title>" \o repoName \o "</title><nav>" \o repoName \o "</nav>"
        \o "<hero><h1>" \o headline \o "</h1><p>" \o subheadline \o "</p>"
        \o TechBadges(analysis)
        \o "<a href=https://github.com/" \o repoName \o ">View on GitHub</a>"
        \o "<a href=#features>Learn More</a></hero>"
        \o "<features>"
        \o Join([i \in 1..Len(features) |->
                   "<card>" \o FeatureIcon(i) \o " " \o features[i] \o "</card>"], "")
        \o "</features>"
        \o "<tech>" \o TechBadges(analysis) \o "</tech>"
        \o "<footer>2024 " \o repoName \o ". Shipped with Shipwright.</footer></html>"

RecommendationFillers ==
    <<"Set NODE_ENV=production in your deployment environment",
      "Enable automatic deployments from your main branch",
      "Configure health check endpoints for production monitoring">>

RECURSIVE PadRecommendations(_)
\* while (recs.length < 3) recs.push(defaults[recs.length])
PadRecommendations(recs) ==
    IF Len(recs) < 3
    THEN PadRecommendations(Append(recs, RecommendationFillers[Len(recs) + 1]))
    ELSE recs

buildDefaultRecommendations(analysis) ==
    LET r1 == IF SeqIncludes(analysis.missingConfigs, "build script")
              THEN <<"Add a build script to package.json: build: "
                     \o (IF analysis.framework = "Next.js" THEN "next build" ELSE "vite build")>>
              ELSE <<>>
        r2 == IF Len(analysis.envVarsDetected) > 0
              THEN <<"Configure " \o ToString(Len(analysis.envVarsDetected))
                     \o " environment variable(s) in your deployment platform">>
              ELSE <<>>
        r3 == IF ~analysis.hasDocker
              THEN <<"Consider adding a Dockerfile for containerized deployments">>
              ELSE <<>>
        r4 == IF analysis.deploymentRiskScore > 50
              THEN <<"High risk score detected - review missing configurations before deploying">>
              ELSE <<>>
    IN Slice(PadRecommendations(r1 \o r2 \o r3 \o r4), 3)

(***************************************************************************)
(* Code-insight agent (Blackbox): local defaults                           *)
(***************************************************************************)

getVercelFramework(framework) ==
    CASE framework = "Next.js" -> "nextjs"
      [] framework = "React"   -> "react"
      [] framework = "Vue"     -> "vue"
      [] framework = "Svelte"  -> "svelte"
      [] framework = "Astro"   -> "astro"
      [] framework = "Nuxt"    -> "nuxtjs"
      [] framework = "Gatsby"  -> "gatsby"
      [] OTHER -> ""

getOutputDir(framework) ==
    CASE framework = "Next.js" -> ".next"
      [] framework = "React"   -> "dist"
      [] framework = "Vue"     -> "dist"
      [] framework = "Svelte"  -> "build"
      [] framework = "Astro"   -> "dist"
      [] framework = "Nuxt"    -> ".output"
      [] framework = "Gatsby"  -> "public"
      [] OTHER -> "dist"

generateDefaultVercelConfig(analysis) ==
    JsonObject(<< <<"framework", getVercelFramework(analysis.framework)>>,
                  <<"buildCommand", OrElse(analysis.buildScript, "npm run build")>>,
                  <<"outputDirectory", getOutputDir(analysis.framework)>>,
                  <<"installCommand", analysis.packageManager \o " install">>,
                  <<"devCommand", analysis.packageManager \o " run dev">> >>
               \o (IF Len(analysis.envVarsDetected) > 0
                   THEN << <<"env",
                             JsonObject([i \in 1..Len(analysis.envVarsDetected) |->
                                 <<Str(analysis.envVarsDetected[i]),
                                   "@" \o Str(ToLowerCase(analysis.envVarsDetected[i]))>>])>> >>
                   ELSE <<>>))

generateDefaultEnvTemplate(analysis) ==
    Join(<<"# Environment Variables",
           "# Copy this file to .env.local and fill in the values",
           "">>
         \o [i \in 1..Len(analysis.envVarsDetected) |->
                Str(analysis.envVarsDetected[i]) \o "="]
         \o (IF Len(analysis.envVarsDetected) = 0
             THEN <<"# No environment variables detected">> ELSE <<>>),
         "\n")

\* codeInsights when the analysis request fails
DegradedInsights(analysis) ==
    analysis.framework \o " project analyzed. "
        \o (IF Len(analysis.missingConfigs) > 0 THEN "Some configurations are missing."
            ELSE "Configuration looks good.")

(***************************************************************************)
(* Content agent (OpenAI): response parsing                                *)
(*                                                                         *)
(* The final answer of the model is given by what the patterns of          *)
(* parseAgentResponse find in it:                                          *)
(*   fence       <<>> or <<text inside the markdown code fence>>             *)
(*   heading     "" or the text from the first "# " heading on             *)
(*   headline, subheadline   <<>> or <<the trimmed capture>>               *)
(*   features    <<>> or <<the trimmed pieces of the capture>>             *)
(*   numbered    the numbered lines, each without its "n. " prefix         *)
(***************************************************************************)

generateFallbackReadme(analysis, repoName) ==
    "# " \o repoName \o "\n\n" \o analysis.description
        \o "\n\n## Tech Stack\n" \o analysis.framework \o ", " \o analysis.packageManager
        \o ", " \o analysis.backendType
        \o "\n\n## Deployment\n\nDeploy to Vercel with one click."

parseAgentResponse(content, analysis, repoName) ==
    LET readme ==
            IF content.fence # <<>>
            THEN OrElse(content.fence[1], "[fence markdown]\n" \o content.fence[1] \o "[fence]")
            ELSE IF content.heading # "" THEN content.heading
            ELSE generateFallbackReadme(analysis, repoName)
        landingPageCopy ==
            JSONstringify(
              [headline |-> OrElse(IF content.headline = <<>> THEN "" ELSE content.headline[1],
                                   "Ship " \o repoName \o " to production"),
               subheadline |-> OrElse(IF content.subheadline = <<>> THEN ""
                                      ELSE content.subheadline[1],
                                      analysis.framework \o " app ready for deployment"),
               features |-> IF content.features # <<>> THEN Slice(content.features[1], 3)
                            ELSE <<"Fast deployment", "Production ready", "Easy configuration">>,
               hasFeatures |-> TRUE])
        deploymentRecommendations == Slice(content.numbered, 3)
    IN [readme |-> readme,
        landingPageCopy |-> landingPageCopy,
        deploymentRecommendations |->
            IF Len(deploymentRecommendations) > 0 THEN deploymentRecommendations
            ELSE <<"Ensure all environment variables are set in your deployment platform",
                   "Run '" \o analysis.packageManager \o " run build' before deploying",
                   "Set NODE_ENV=production in your deployment environment">>,
        enhancedDescription |-> analysis.framework \o " application - " \o analysis.description]

generateFallbackResult(analysis, repoName) ==
    [readme |-> generateFallbackReadme(analysis, repoName),
     landingPageCopy |->
        JSONstringify([headline |-> "Ship " \o repoName \o " to production",
                       subheadline |-> analysis.framework \o " app ready for deployment",
                       features |-> <<"Fast deployment", "Production ready",
                                      "Easy configuration">>,
                       hasFeatures |-> TRUE]),
     deploymentRecommendations |->
        <<"Ensure all environment variables are configured",
          "Run '" \o analysis.packageManager \o " run build' before deploying",
          "Set NODE_ENV=production in your deployment environment">>,
     enhancedDescription |-> analysis.description]

\* final answers the content model may give
AnswerFull ==
    [fence |-> <<"# Shop\nThe storefront.">>, heading |-> "# Shop\nThe storefront.",
     headline |-> <<"Sell faster">>, subheadline |-> <<"A storefront that ships">>,
     features |-> << <<"Carts", "Checkout", "Search", "Reviews">> >>,
     numbered |-> <<"Pin the Node version", "Set the secrets", "Enable previews",
                    "Add monitoring">>]
AnswerPartial ==
    [fence |-> <<>>, heading |-> "# Project", headline |-> <<"">>, subheadline |-> <<>>,
     features |-> << <<"One feature">> >>, numbered |-> <<"Use a CDN">>]
AnswerEmpty ==
    [fence |-> <<>>, heading |-> "", headline |-> <<>>, subheadline |-> <<>>,
     features |-> <<>>, numbered |-> <<>>]
Answers == {AnswerFull, AnswerPartial, AnswerEmpty}

(***************************************************************************)
(* Content agent (OpenAI): the tool loop                                   *)
(*                                                                         *)
(* A file is given by the text of its first 3000 characters and its        *)
(* length; the arguments of a tool call are the JSON text of an object     *)
(* with a path, or a text JSON.parse rejects.                              *)
(***************************************************************************)

\* openai-agent.ts 66: content.length > 3000
TruncateAt == 3000

ShortFile == [head |-> "# Shop\nThe storefront.", length |-> 22]
LongFile == [head |-> "# Shop\n(the first 3000 characters)", length |-> 3001]
Listing == << [type |-> "dir", path |-> "src"], [type |-> "file", path |-> "package.json"] >>

\* what the GitHub client does during one round: throws |-> TRUE when a call
\* of it raises, content |-> Null and contents |-> Null when it returns null
GitHubStates ==
    { [throws |-> FALSE, content |-> ShortFile, contents |-> Listing],
      [throws |-> FALSE, content |-> LongFile, contents |-> Listing],
      [throws |-> FALSE, content |-> Null, contents |-> Null],
      [throws |-> TRUE, content |-> Null, contents |-> Null] }

\* openai-agent.ts 54-81
executeTool(name, args, github) ==
    IF name = "read_repo_file"
    THEN IF github.throws THEN "Tool error: " \o "Error: socket hang up"
         ELSE IF github.content = Null THEN "File not found: " \o args.path
         ELSE IF github.content.length > TruncateAt
              THEN github.content.head \o "\n...[truncated]"
              ELSE github.content.head
    ELSE IF name = "list_repo_files"
    THEN IF github.throws THEN "Tool error: " \o "Error: socket hang up"
         ELSE IF github.contents = Null THEN "Directory not found or empty"
         ELSE Join([i \in 1..Len(github.contents) |->
                      (IF github.contents[i].type = "dir" THEN "[dir]" ELSE "[file]")
                          \o " " \o github.contents[i].path], "\n")
    ELSE "Unknown tool"

\* a text JSON.parse rejects
BadArguments == <<"text", "{\"path\": ">>

\* JSON.parse(fnCall.function.arguments) returns
Parses(text) == text[1] = "json"

ToolCall(round, i, name, arguments) ==
    [id |-> "call_" \o ToString(round) \o "_" \o ToString(i), type |-> "function",
     name |-> name, arguments |-> arguments]

\* the tool calls the model may request in the given round; the tools offered
\* are both of type function, and so is every call of an answer
ToolCallBatches(round) ==
    { <<ToolCall(round, 1, "read_repo_file", JSONstringify([path |-> "README.md"]))>>,
      <<ToolCall(round, 1, "list_repo_files", JSONstringify([path |-> ""])),
        ToolCall(round, 2, "read_repo_file", JSONstringify([path |-> "src/index.ts"]))>>,
      <<ToolCall(round, 1, "delete_repo", JSONstringify([path |-> ""])),
        ToolCall(round, 2, "read_repo_file", JSONstringify([path |-> "README.md"]))>>,
      <<ToolCall(round, 1, "read_repo_file", JSONstringify([path |-> "README.md"])),
        ToolCall(round, 2, "read_repo_file", BadArguments)>> }

Message(role, content, toolCalls, toolCallId) ==
    [role |-> role, content |-> content, tool_calls |-> toolCalls,
     tool_call_id |-> toolCallId]

\* the for loop that leaves the call of an unknown tool without a result
RECURSIVE ToolLoopUnknownSkipped(_, _)
ToolLoopUnknownSkipped(calls, github) ==
    IF Len(calls) = 0 THEN [pushed |-> <<>>, threw |-> FALSE]
    ELSE IF calls[1].type # "function" THEN ToolLoopUnknownSkipped(Tail(calls), github)
    ELSE IF ~Parses(calls[1].arguments) THEN [pushed |-> <<>>, threw |-> TRUE]
    ELSE LET rest == ToolLoopUnknownSkipped(Tail(calls), github)
             text == executeTool(calls[1].name, JSONparse(calls[1].arguments), github)
         IN [pushed |-> (IF text = "Unknown tool" THEN <<>>
                         ELSE <<Message("tool", text, <<>>, calls[1].id)>>) \o rest.pushed,
             threw |-> rest.threw]

\* openai-agent.ts 163-189: the messages the for loop pushes, and whether
\* JSON.parse threw out of it
RECURSIVE ToolLoop(_, _)
ToolLoop(calls, github) ==
    IF Len(calls) = 0 THEN [pushed |-> <<>>, threw |-> FALSE]
    ELSE IF calls[1].type # "function" THEN ToolLoop(Tail(calls), github)
    ELSE IF ~Parses(calls[1].arguments) THEN [pushed |-> <<>>, threw |-> TRUE]
    ELSE LET rest == ToolLoop(Tail(calls), github)
         IN [pushed |-> <<Message("tool",
                                  executeTool(calls[1].name,
                                              JSONparse(calls[1].arguments), github),
                                  <<>>, calls[1].id)>> \o rest.pushed,
             threw |-> rest.threw]

(***************************************************************************)
(* GitHubClient.getFileTree (blackbox-agent.ts 474-502)                    *)
(***************************************************************************)

\* a path is the sequence of its segments; its depth is their number
RootPath == <<>>

\* the directories a repository of the family may have
DirPaths == {RootPath, <<"docs">>, <<"src">>, <<"src", "lib">>, <<"src", "lib", "deep">>}

\* the names of the directories listed in a directory
SubDirs(path) ==
    IF path = RootPath THEN <<"docs", "src">>
    ELSE IF path = <<"src">> THEN <<"lib">>
    ELSE IF path = <<"src", "lib">> THEN <<"deep">>
    ELSE <<>>

\* what GitHub answers for a path: the listing of a directory, the object
\* of a single file, or an error (not found, transport)
ContentAnswers == {"listing", "object", "error"}

\* the repositories: for every directory the answer to a request for it
\* and whether it holds a file
RepoTrees == [DirPaths -> [answer : ContentAnswers, hasFile : BOOLEAN]]

Item(path, name, type) == [path |-> Append(path, name), name |-> name, type |-> type]

\* the items of a directory listing: its directories, its file if it has
\* one, and a symlink in the root
Items(tree, path) ==
    [i \in 1..Len(SubDirs(path)) |-> Item(path, SubDirs(path)[i], "dir")]
        \o (IF tree[path].hasFile THEN <<Item(path, "index.ts", "file")>> ELSE <<>>)
        \o (IF path = RootPath THEN <<Item(path, "latest", "symlink")>> ELSE <<>>)

\* blackbox-agent.ts 433-454: the listing, the file object, or null when
\* the request raised
getRepoContents(tree, path) ==
    IF tree[path].answer = "error" THEN [kind |-> "null", items |-> <<>>]
    ELSE IF tree[path].answer = "object" THEN [kind |-> "object", items |-> <<>>]
    ELSE [kind |-> "array", items |-> Items(tree, path)]

\* Array.isArray
IsArray(contents) == contents.kind = "array"

\* every item that is not descended into is pushed
IsFileAny(item) == TRUE

\* blackbox-agent.ts 487: else if (item.type === "file")
IsFile(item) == item.type = "file"

RECURSIVE traverse(_, _, _, _, _)
RECURSIVE traverseItems(_, _, _, _, _)

\* blackbox-agent.ts 484-494: the for loop over the items of a listing;
\* acc holds the files pushed and the paths requested so far
traverseItems(tree, items, depth, maxDepth, acc) ==
    IF items = <<>> THEN acc
    ELSE LET item == Head(items)
             after == IF item.type = "dir" /\ depth < maxDepth
                      THEN traverse(tree, item.path, depth + 1, maxDepth, acc)
                      ELSE IF IsFile(item)
                      THEN [acc EXCEPT !.files =
                               Append(@, [path |-> item.path, type |-> item.type,
                                          content |-> item.name])]
                      ELSE acc
         IN traverseItems(tree, Tail(items), depth, maxDepth, after)

\* blackbox-agent.ts 477-498
traverse(tree, path, depth, maxDepth, acc) ==
    IF depth > maxDepth THEN acc
    ELSE LET contents == getRepoContents(tree, path)
             requested == [acc EXCEPT !.fetched = Append(@, path)]
         IN IF ~IsArray(contents) THEN requested
            ELSE traverseItems(tree, contents.items, depth, maxDepth, requested)

\* blackbox-agent.ts 474-502
getFileTree(tree, maxDepth) ==
    traverse(tree, RootPath, 0, maxDepth, [files |-> <<>>, fetched |-> <<>>])

(***************************************************************************)
(* Billing (lib/stripe.ts).  The customer's payment intents are the list   *)
(* stripe.paymentIntents.list returns; a metadata value is <<>> when the   *)
(* key is absent and <<n>> when it holds the decimal text of n.            *)
(***************************************************************************)

\* a paid Ship Credit as the checkout creates it (quantity "1", used "0")
IntentUnused == [status |-> "succeeded", type |-> "ship_credit",
                 quantity |-> <<1>>, used |-> <<0>>]
\* the same after consumeShipCredit
IntentUsed == [status |-> "succeeded", type |-> "ship_credit",
               quantity |-> <<1>>, used |-> <<1>>]
\* a Ship Credit checkout that was never paid
IntentUnpaid == [status |-> "requires_payment_method", type |-> "ship_credit",
                 quantity |-> <<1>>, used |-> <<0>>]
\* a payment with no ship_credit metadata (a subscription invoice)
IntentOther == [status |-> "succeeded", type |-> "", quantity |-> <<>>, used |-> <<>>]

\* the largest number of unused Ship Credits a customer starts with
MaxCredits == 2

\* the payment intent lists a customer may start with: older payments
\* followed by up to MaxCredits unused Ship Credits
Wallets ==
    { older \o [i \in 1..n |-> IntentUnused] :
        older \in { <<>>, <<IntentOther, IntentUnpaid, IntentUsed>> },
        n \in 0..MaxCredits }

\* Number(value || dflt) of a metadata value
MetaNumber(value, dflt) == IF value = <<>> THEN dflt ELSE value[1]

IsShipCredit(pi) == pi.status = "succeeded" /\ pi.type = "ship_credit"

RECURSIVE SumCredits(_)
SumCredits(payments) ==
    IF Len(payments) = 0 THEN 0
    ELSE (IF IsShipCredit(payments[1])
          THEN MetaNumber(payments[1].quantity, 1) - MetaNumber(payments[1].used, 0)
          ELSE 0) + SumCredits(Tail(payments))

getShipCredits(payments) ==
    IF SumCredits(payments) > 0 THEN SumCredits(payments) ELSE 0

\* the loop comparing with <= in place of <
FirstConsumableLax(payments) ==
    IF \E i \in 1..Len(payments) :
          IsShipCredit(payments[i])
          /\ MetaNumber(payments[i].used, 0) <= MetaNumber(payments[i].quantity, 1)
    THEN CHOOSE i \in 1..Len(payments) :
          /\ IsShipCredit(payments[i])
          /\ MetaNumber(payments[i].used, 0) <= MetaNumber(payments[i].quantity, 1)
          /\ \A j \in 1..(i - 1) :
                ~(IsShipCredit(payments[j])
                  /\ MetaNumber(payments[j].used, 0) <= MetaNumber(payments[j].quantity, 1))
    ELSE 0

\* consumeShipCredit, the loop: the index of the first succeeded ship_credit
\* intent with used < quantity among the listed payments, 0 when there is none
FirstConsumable(payments) ==
    IF \E i \in 1..Len(payments) :
          IsShipCredit(payments[i])
          /\ MetaNumber(payments[i].used, 0) < MetaNumber(payments[i].quantity, 1)
    THEN CHOOSE i \in 1..Len(payments) :
          /\ IsShipCredit(payments[i])
          /\ MetaNumber(payments[i].used, 0) < MetaNumber(payments[i].quantity, 1)
          /\ \A j \in 1..(i - 1) :
                ~(IsShipCredit(payments[j])
                  /\ MetaNumber(payments[j].used, 0) < MetaNumber(payments[j].quantity, 1))
    ELSE 0

\* consumeShipCredit writing the used count back as it read it
UpdateUsedStale(stored, listed, i) ==
    [stored EXCEPT ![i] = [@ EXCEPT !.type = listed[i].type,
                                    !.quantity = listed[i].quantity,
                                    !.used = <<MetaNumber(listed[i].used, 0)>>]]

\* consumeShipCredit, the update: metadata { ...pi.metadata, used: String(used + 1) }
\* of the listed intent written to the stored one
UpdateUsed(stored, listed, i) ==
    [stored EXCEPT ![i] = [@ EXCEPT !.type = listed[i].type,
                                    !.quantity = listed[i].quantity,
                                    !.used = <<MetaNumber(listed[i].used, 0) + 1>>]]

\* the gate comparing with >= in place of >
HasAccessOpen(pro, creditCount) == pro \/ creditCount >= 0

\* route.ts: const hasAccess = isPro || credits > 0
HasAccess(pro, creditCount) == pro \/ creditCount > 0

(***************************************************************************)
(* Orchestrator helpers                                                    *)
(***************************************************************************)

\* the loop bound off by one
maxIterationsOneMore == 8 + 1

\* openai-agent.ts 139
maxIterations == 8

\* addStep: the new AgentStep
NewStep(counter, label) ==
    [id |-> ToString(counter), label |-> label, status |-> "running", detail |-> ""]

\* completeStep that records the detail and leaves the status as it is
completeStepStillRunning(step, detail) ==
    [step EXCEPT !.detail = OrElse(detail, @)]

\* orchestrator.ts 52-56
completeStep(step, detail) ==
    [step EXCEPT !.status = "done", !.detail = OrElse(detail, @)]

\* failStep that drops the failure detail
failStepNoDetail(step, detail) ==
    [step EXCEPT !.status = "error"]

\* failStep that records the detail and leaves the status as it is
failStepStillRunning(step, detail) ==
    [step EXCEPT !.detail = detail]

\* orchestrator.ts 58-62
failStep(step, detail) ==
    [step EXCEPT !.status = "error", !.detail = detail]

\* the agents' progress callback of runOrchestrator: (label, detail) => { ... }
progressStep(step, label, detail) ==
    [step EXCEPT !.label = label, !.detail = OrElse(detail, @)]

\* onStep that leaves the status of a step it already keeps
onStepKeepStatus(kept, step) ==
    IF \E i \in 1..Len(kept) : kept[i].id = step.id
    THEN LET i == CHOOSE k \in 1..Len(kept) : kept[k].id = step.id
         IN [kept EXCEPT ![i] = [@ EXCEPT !.label = step.label, !.detail = step.detail]]
    ELSE Append(kept, step)

\* route.ts onStep: update the copy with the same id, else push a copy
onStep(kept, step) ==
    IF \E i \in 1..Len(kept) : kept[i].id = step.id
    THEN LET i == CHOOSE k \in 1..Len(kept) :
                    kept[k].id = step.id /\ \A j \in 1..(k - 1) : kept[j].id # step.id
         IN [kept EXCEPT ![i] = [@ EXCEPT !.label = step.label,
                                          !.status = step.status,
                                          !.detail = step.detail]]
    ELSE Append(kept, step)

\* the provider ternary testing the Blackbox result first
ProviderBlackboxFirst(oaResult, bbResult) ==
    IF bbResult # Null THEN "blackbox"
    ELSE IF oaResult # Null THEN "openai"
    ELSE "template"

Provider(oaResult, bbResult) ==
    IF oaResult # Null /\ bbResult # Null THEN "openai"
    ELSE IF oaResult # Null THEN "openai"
    ELSE IF bbResult # Null THEN "blackbox"
    ELSE "template"

\* the README merge with its operands swapped
MergeReadmeTemplateFirst(oaResult, repoName, an, description) ==
    OrElse(generateReadme(repoName, an, description),
           IF oaResult = Null THEN "" ELSE oaResult.readme)

\* openaiResult?.readme || generateReadme(repo, analysis, description)
MergeReadme(oaResult, repoName, an, description) ==
    OrElse(IF oaResult = Null THEN "" ELSE oaResult.readme,
           generateReadme(repoName, an, description))

MergeLandingPage(oaResult, repoName, an, description) ==
    buildLandingPage(repoName, an,
                     IF oaResult = Null THEN <<>> ELSE oaResult.landingPageCopy,
                     description)

MergeVercelJson(bbResult, an) ==
    OrElse(IF bbResult = Null THEN "" ELSE bbResult.vercelConfig,
           generateVercelJsonFile(an))

\* the env template merge falling back to the agent's own default
MergeEnvTemplateAgentDefault(bbResult, an) ==
    OrElse(IF bbResult = Null THEN "" ELSE bbResult.envTemplate,
           generateDefaultEnvTemplate(an))

MergeEnvTemplate(bbResult, an) ==
    OrElse(IF bbResult = Null THEN "" ELSE bbResult.envTemplate,
           generateEnvTemplate(an))

\* the scripts merge taking the agent's suggestions even when there are none
MergePackageJsonScriptsUnchecked(bbResult, an) ==
    IF bbResult # Null THEN bbResult.suggestedScripts
    ELSE generatePackageJsonScripts(an)

\* orchestrator.ts 156-159
MergePackageJsonScripts(bbResult, an) ==
    IF bbResult # Null /\ bbResult.suggestedScripts # {}
    THEN bbResult.suggestedScripts
    ELSE generatePackageJsonScripts(an)

\* an array is truthy even when it is empty
MergeRecommendations(oaResult, an) ==
    IF oaResult # Null THEN oaResult.deploymentRecommendations
    ELSE buildDefaultRecommendations(an)

(***************************************************************************)
(* State                                                                   *)
(***************************************************************************)

VARIABLES
    \* Stripe, for the customer of the session's email
    customerExists,     \* a customer with this email exists
    proActive,          \* an active subscription holds the Pro price
    paymentIntents,     \* the customer's payment intents, in list order
    \* POST /api/agent, one request
    pc,                 \* where the request is
    session,            \* "none", "noemail" or "user"
    isPro, credits,     \* the locals of the payment gate
    repo, description,  \* the parsed body
    routeSteps,         \* the route's `steps`
    listed,             \* consumeShipCredit: the payments it listed
    consumed,           \* consumeShipCredit: "", "true", "false" or "threw"
    response,           \* the Response returned
    logged,             \* console.error messages
    \* runOrchestrator
    steps, stepCounter, analysis, blackboxResult, openaiResult, result, thrown,
    \* runBlackboxAgent / runOpenAIAgent
    insights,           \* codeInsights, riskAssessment, suggestedScripts, vercelConfig
    iterations,
    blackboxCalls,      \* outcome of every callBlackbox of the run, in order
    openaiCalls,        \* outcome of every chat completion request of the run
    \* history
    billingBefore,      \* Stripe's state when the request arrived
    billingCalls,       \* the lib/stripe.ts functions the request called, in order
    \* several requests of the customer in flight at once
    requests,           \* the locals of every such request
    \* runOpenAIAgent taken alone
    messages,           \* the transcript sent with every completion request
    \* getFileTree taken alone
    tree,               \* what GitHub answers for the directories of the repository
    maxDepth,
    fileTree,           \* the array getFileTree returned
    fetched             \* the paths getRepoContents was called with, in order

billingVars == <<customerExists, proActive, paymentIntents>>
gateVars == <<session, isPro, credits>>
bodyVars == <<repo, description>>
consumeVars == <<listed, consumed>>
stepVars == <<steps, stepCounter, routeSteps>>
agentVars == <<blackboxResult, openaiResult, insights, iterations,
               blackboxCalls, openaiCalls>>
runVars == <<analysis, result, thrown>>
treeVars == <<tree, maxDepth, fileTree, fetched>>

\* getFileTree has not been called
NoTree == tree = <<>> /\ maxDepth = 0 /\ fileTree = <<>> /\ fetched = <<>>
vars == <<customerExists, proActive, paymentIntents, pc, session, isPro, credits,
          repo, description, routeSteps, listed, consumed, response, logged,
          steps, stepCounter, analysis, blackboxResult, openaiResult, result, thrown,
          insights, iterations, blackboxCalls, openaiCalls, billingBefore, billingCalls,
          requests, messages, tree, maxDepth, fileTree, fetched>>

NoResponse == [status |-> 0]

\* Stripe's state for the customer
Billing == [customerExists |-> customerExists, proActive |-> proActive,
            paymentIntents |-> paymentIntents]

NoInsights == [codeInsights |-> "", riskAssessment |-> "", suggestedScripts |-> {},
               vercelConfig |-> ""]

Init ==
    /\ paymentIntents \in Wallets
    /\ proActive \in BOOLEAN
    /\ customerExists \in BOOLEAN
    /\ (paymentIntents # <<>> \/ proActive) => customerExists
    /\ proActive => Len(paymentIntents) <= 1
    /\ pc = "idle"
    /\ session = ""
    /\ isPro = FALSE
    /\ credits = 0
    /\ repo = Null
    /\ description = ""
    /\ routeSteps = <<>>
    /\ listed = <<>>
    /\ consumed = ""
    /\ response = NoResponse
    /\ logged = {}
    /\ steps = <<>>
    /\ stepCounter = 0
    /\ analysis = Null
    /\ blackboxResult = Null
    /\ openaiResult = Null
    /\ result = Null
    /\ thrown = ""
    /\ insights = NoInsights
    /\ iterations = 0
    /\ blackboxCalls = <<>>
    /\ openaiCalls = <<>>
    /\ billingBefore = Billing
    /\ billingCalls = <<>>
    /\ NoTree
    /\ requests = <<>>
    /\ messages = <<>>

\* route.ts 18: the next request of the customer arrives after the previous
\* one was answered; Stripe keeps its state
NextRequest ==
    /\ pc = "done"
    /\ pc' = "idle"
    /\ session' = ""
    /\ isPro' = FALSE
    /\ credits' = 0
    /\ repo' = Null
    /\ description' = ""
    /\ routeSteps' = <<>>
    /\ listed' = <<>>
    /\ consumed' = ""
    /\ response' = NoResponse
    /\ logged' = {}
    /\ steps' = <<>>
    /\ stepCounter' = 0
    /\ analysis' = Null
    /\ blackboxResult' = Null
    /\ openaiResult' = Null
    /\ result' = Null
    /\ thrown' = ""
    /\ insights' = NoInsights
    /\ iterations' = 0
    /\ blackboxCalls' = <<>>
    /\ openaiCalls' = <<>>
    /\ billingBefore' = Billing
    /\ billingCalls' = <<>>
    /\ UNCHANGED billingVars
    /\ UNCHANGED <<requests, messages, treeVars>>

\* Response.json({ error }, { status })
ErrorResponse(status, error) == [status |-> status, error |-> error]

(***************************************************************************)
(* POST /api/agent: session and payment gate                               *)
(***************************************************************************)

\* route.ts 19-34: the session check
Receive ==
    /\ pc = "idle"
    /\ \E s \in {"none", "noemail", "user"} :
        /\ session' = s
        /\ IF s = "none"
           THEN pc' = "done" /\ response' = ErrorResponse(401, "Unauthorized")
           ELSE IF s = "noemail"
           THEN pc' = "done" /\ response' = ErrorResponse(403, "Account email required to use AI generation. Please sign in with GitHub.")
           ELSE pc' = "customer" /\ response' = response
    /\ billingBefore' = Billing
    /\ billingCalls' = <<>>
    /\ UNCHANGED <<billingVars, isPro, credits, bodyVars, consumeVars, logged,
                   stepVars, agentVars, runVars>>
    /\ UNCHANGED <<requests, messages, treeVars>>

\* route.ts 41: getOrCreateCustomer returns the customer (created when the
\* email has none) or throws
GetCustomer ==
    /\ pc = "customer"
    /\ billingCalls' = billingCalls \o <<"getOrCreateCustomer">>
    /\ \E ok \in BOOLEAN :
        IF ok
        THEN /\ customerExists' = TRUE
             /\ pc' = "check"
             /\ UNCHANGED <<response, logged>>
        ELSE /\ logged' = logged \cup {"Payment check failed"}
             /\ response' = ErrorResponse(500, "Payment verification failed. Please try again.")
             /\ pc' = "done"
             /\ UNCHANGED customerExists
    /\ UNCHANGED <<proActive, paymentIntents, gateVars, bodyVars, consumeVars,
                   stepVars, agentVars, runVars, billingBefore>>
    /\ UNCHANGED <<requests, messages, treeVars>>

\* the billing check failing open: a failed call is logged and the request
\* goes on as if access had been found
CheckPaymentFailOpen ==
    /\ pc = "check"
    /\ billingCalls' = billingCalls \o <<"hasActiveProSubscription", "getShipCredits">>
    /\ \E ok \in BOOLEAN :
        IF ok
        THEN /\ isPro' = proActive
             /\ credits' = getShipCredits(paymentIntents)
             /\ IF HasAccess(proActive, getShipCredits(paymentIntents))
                THEN pc' = "parse" /\ response' = response
                ELSE pc' = "done" /\ response' = ErrorResponse(402, "payment_required")
             /\ UNCHANGED logged
        ELSE /\ logged' = logged \cup {"Payment check failed"}
             /\ response' = response
             /\ pc' = "parse"
             /\ UNCHANGED <<isPro, credits>>
    /\ UNCHANGED <<billingVars, session, bodyVars, consumeVars,
                   stepVars, agentVars, runVars, billingBefore>>
    /\ UNCHANGED <<requests, messages, treeVars>>

\* route.ts 42-66: hasActiveProSubscription and getShipCredits (either may
\* throw), then the gate
CheckPayment ==
    /\ pc = "check"
    /\ billingCalls' = billingCalls \o <<"hasActiveProSubscription", "getShipCredits">>
    /\ \E ok \in BOOLEAN :
        IF ok
        THEN /\ isPro' = proActive
             /\ credits' = getShipCredits(paymentIntents)
             /\ IF HasAccess(proActive, getShipCredits(paymentIntents))
                THEN pc' = "parse" /\ response' = response
                ELSE pc' = "done" /\ response' = ErrorResponse(402, "payment_required")
             /\ UNCHANGED logged
        ELSE /\ logged' = logged \cup {"Payment check failed"}
             /\ response' = ErrorResponse(500, "Payment verification failed. Please try again.")
             /\ pc' = "done"
             /\ UNCHANGED <<isPro, credits>>
    /\ UNCHANGED <<billingVars, session, bodyVars, consumeVars,
                   stepVars, agentVars, runVars, billingBefore>>
    /\ UNCHANGED <<requests, messages, treeVars>>

\* route.ts 73-88 and orchestrator.ts 35-70: the body is parsed, and a valid
\* one starts runOrchestrator, which adds the analysis step and awaits analyze
ParseRequest ==
    /\ pc = "parse"
    /\ \E parsed \in {"ok", "parameters", "body"} :
        IF parsed = "ok"
        THEN \E body \in Bodies :
             /\ repo' = body.repo
             /\ description' = body.description
             /\ stepCounter' = stepCounter + 1
             /\ steps' = Append(steps,
                                NewStep(stepCounter + 1, "Analyzing repository structure"))
             /\ routeSteps' = onStep(routeSteps,
                                NewStep(stepCounter + 1, "Analyzing repository structure"))
             /\ pc' = "analyzing"
             /\ response' = response
        ELSE /\ response' = ErrorResponse(400, "Invalid request " \o parsed)
             /\ pc' = "done"
             /\ UNCHANGED <<bodyVars, stepVars>>
    /\ UNCHANGED <<billingVars, gateVars, consumeVars, logged,
                   agentVars, runVars, billingBefore, billingCalls>>
    /\ UNCHANGED <<requests, messages, treeVars>>

(***************************************************************************)
(* runOrchestrator                                                         *)
(***************************************************************************)

\* a step of `steps` is replaced and onStep is not called
ReportSilent(i, step) ==
    /\ steps' = [steps EXCEPT ![i] = step]
    /\ routeSteps' = routeSteps

\* a step of `steps` is replaced and reported to the route's onStep
Report(i, step) ==
    /\ steps' = [steps EXCEPT ![i] = step]
    /\ routeSteps' = onStep(routeSteps, step)

\* addStep(label)
AddStep(label) ==
    /\ stepCounter' = stepCounter + 1
    /\ steps' = Append(steps, NewStep(stepCounter + 1, label))
    /\ routeSteps' = onStep(routeSteps, NewStep(stepCounter + 1, label))

\* the steps of the stages, in the order they are added
analysisStep == 1
blackboxStep == 2
openaiStep == 3
mergeStep == 4

\* the analysis catch block without its throw: the failure is recorded and
\* the run goes on
FinishAnalysisSwallowed ==
    /\ pc = "analyzing"
    /\ \E ok \in BOOLEAN :
        IF ok
        THEN /\ analysis' = analyze(repo)
             /\ Report(analysisStep,
                       completeStep(steps[analysisStep],
                                    analyze(repo).framework \o " · Risk: "
                                        \o ToString(analyze(repo).deploymentRiskScore) \o "%"))
             /\ pc' = "blackbox"
             /\ UNCHANGED <<thrown, response, logged>>
        ELSE /\ Report(analysisStep, failStep(steps[analysisStep], "Error: analyze failed"))
             /\ analysis' = analyze(repo)
             /\ pc' = "blackbox"
             /\ UNCHANGED <<thrown, response, logged>>
    /\ UNCHANGED <<billingVars, gateVars, bodyVars, consumeVars, stepCounter,
                   agentVars, result, billingBefore, billingCalls>>
    /\ UNCHANGED <<requests, messages, treeVars>>

\* the analysis when getPackageJson has no try/catch: a manifest that cannot
\* be fetched or parsed throws out of analyze
FinishAnalysisManifestFatal ==
    /\ pc = "analyzing"
    /\ \E ok \in BOOLEAN :
        IF ok /\ repo.pkgFile = "ok"
        THEN /\ analysis' = analyze(repo)
             /\ Report(analysisStep,
                       completeStep(steps[analysisStep],
                                    analyze(repo).framework \o " · Risk: "
                                        \o ToString(analyze(repo).deploymentRiskScore) \o "%"))
             /\ pc' = "blackbox"
             /\ UNCHANGED <<thrown, response, logged>>
        ELSE LET err == IF ok THEN "SyntaxError: package.json" ELSE "Error: analyze failed" IN
             /\ Report(analysisStep, failStep(steps[analysisStep], err))
             /\ thrown' = "Repository analysis failed: " \o err
             /\ logged' = logged \cup {"Agent orchestrator failed"}
             /\ response' = [status |-> 500,
                             error |-> "AI generation failed. Please try again.",
                             steps |-> onStep(routeSteps,
                                              failStep(steps[analysisStep], err))]
             /\ pc' = "done"
             /\ UNCHANGED analysis
    /\ UNCHANGED <<billingVars, gateVars, bodyVars, consumeVars, stepCounter,
                   agentVars, result, billingBefore, billingCalls>>
    /\ UNCHANGED <<requests, messages, treeVars>>

\* orchestrator.ts 68-75 and route.ts 122-130: analyze returns, or an
\* exception escapes it, runOrchestrator rethrows and the route answers 500
FinishAnalysis ==
    /\ pc = "analyzing"
    /\ \E ok \in BOOLEAN :
        IF ok
        THEN /\ analysis' = analyze(repo)
             /\ Report(analysisStep,
                       completeStep(steps[analysisStep],
                                    analyze(repo).framework \o " · Risk: "
                                        \o ToString(analyze(repo).deploymentRiskScore) \o "%"))
             /\ pc' = "blackbox"
             /\ UNCHANGED <<thrown, response, logged>>
        ELSE /\ Report(analysisStep, failStep(steps[analysisStep], "Error: analyze failed"))
             /\ thrown' = "Repository analysis failed: " \o "Error: analyze failed"
             /\ logged' = logged \cup {"Agent orchestrator failed"}
             /\ response' = [status |-> 500,
                             error |-> "AI generation failed. Please try again.",
                             steps |-> onStep(routeSteps,
                                              failStep(steps[analysisStep],
                                                       "Error: analyze failed"))]
             /\ pc' = "done"
             /\ UNCHANGED analysis
    /\ UNCHANGED <<billingVars, gateVars, bodyVars, consumeVars, stepCounter,
                   agentVars, result, billingBefore, billingCalls>>
    /\ UNCHANGED <<requests, messages, treeVars>>

\* orchestrator.ts 78
StartBlackbox ==
    /\ pc = "blackbox"
    /\ AddStep("Blackbox AI: Deep code analysis")
    /\ pc' = "bb_enter"
    /\ UNCHANGED <<billingVars, gateVars, bodyVars, consumeVars, response, logged,
                   agentVars, runVars, billingBefore, billingCalls>>
    /\ UNCHANGED <<requests, messages, treeVars>>

\* blackbox-agent.ts 85-88: the agent is entered; an exception that escapes
\* it (no try block covers line 85) is caught at orchestrator.ts 94-96
EnterBlackbox ==
    /\ pc = "bb_enter"
    /\ \E ok \in BOOLEAN :
        IF ok
        THEN /\ Report(blackboxStep,
                       progressStep(steps[blackboxStep],
                                    "Blackbox AI: Reading repository", "Fetching key files"))
             /\ pc' = "bb_read"
        ELSE /\ Report(blackboxStep,
                       failStep(steps[blackboxStep],
                                "Falling back to templates: " \o "Error: agent failed"))
             /\ pc' = "openai"
    /\ UNCHANGED <<billingVars, gateVars, bodyVars, consumeVars, response, logged,
                   stepCounter, agentVars, runVars, billingBefore, billingCalls>>
    /\ UNCHANGED <<requests, messages, treeVars>>

\* blackbox-agent.ts 90-108: the file tree, package.json and the entry file
\* are read (the GitHub client fails soft)
ReadRepository ==
    /\ pc = "bb_read"
    /\ Report(blackboxStep,
              progressStep(steps[blackboxStep],
                           "Blackbox AI: Analyzing code", "Deep dependency analysis"))
    /\ pc' = "bb_analysis"
    /\ UNCHANGED <<billingVars, gateVars, bodyVars, consumeVars, response, logged,
                   stepCounter, agentVars, runVars, billingBefore, billingCalls>>
    /\ UNCHANGED <<requests, messages, treeVars>>

\* what the code-insight model may answer to the analysis prompt
AnalysisAnswers == {"scripts", "noscripts", "text"}

\* blackbox-agent.ts 139-163: the analysis request
BlackboxAnalysis ==
    /\ pc = "bb_analysis"
    /\ \E out \in {"fail"} \cup AnalysisAnswers :
        /\ blackboxCalls' = Append(blackboxCalls, IF out = "fail" THEN "fail" ELSE "ok")
        /\ insights' =
             IF out = "fail"
             THEN [insights EXCEPT !.codeInsights = DegradedInsights(analysis)]
             ELSE IF out = "text"
             THEN [insights EXCEPT !.codeInsights = "Looks deployable."]
             ELSE [insights EXCEPT
                     !.codeInsights = "The code is tidy.",
                     !.riskAssessment = "Low risk.",
                     !.suggestedScripts =
                        IF out = "scripts"
                        THEN {<<"build", "npm run compile">>, <<"start", "node dist/main.js">>}
                        ELSE {}]
        \* a failure is reported as a warning before the next label is set
        /\ steps' = [steps EXCEPT ![blackboxStep] =
                        progressStep(
                            IF out = "fail"
                            THEN progressStep(@, "Blackbox AI: Analysis warning",
                                              "Error: Blackbox API error")
                            ELSE @,
                            "Blackbox AI: Generating Vercel config",
                            "Creating deployment config")]
        /\ routeSteps' =
             onStep(IF out = "fail"
                    THEN onStep(routeSteps,
                                progressStep(steps[blackboxStep],
                                             "Blackbox AI: Analysis warning",
                                             "Error: Blackbox API error"))
                    ELSE routeSteps,
                    steps'[blackboxStep])
    /\ pc' = "bb_vercel"
    /\ UNCHANGED <<billingVars, gateVars, bodyVars, consumeVars, response, logged,
                   stepCounter, blackboxResult, openaiResult, iterations, openaiCalls,
                   runVars, billingBefore, billingCalls>>
    /\ UNCHANGED <<requests, messages, treeVars>>

\* the Vercel config request given up once the analysis request has failed
BlackboxVercelGivenUp ==
    /\ pc = "bb_vercel"
    /\ \E out \in {"fail", "match", "nomatch"} :
        /\ blackboxCalls' = IF blackboxCalls[1] = "fail" THEN blackboxCalls
                            ELSE Append(blackboxCalls, IF out = "fail" THEN "fail" ELSE "ok")
        /\ insights' = [insights EXCEPT !.vercelConfig =
                            IF out = "match" /\ blackboxCalls[1] # "fail"
                            THEN "{\"version\": \"2\"}"
                            ELSE generateDefaultVercelConfig(analysis)]
    /\ Report(blackboxStep,
              progressStep(steps[blackboxStep],
                           "Blackbox AI: Generating env template", "Creating .env.example"))
    /\ pc' = "bb_env"
    /\ UNCHANGED <<billingVars, gateVars, bodyVars, consumeVars, response, logged,
                   stepCounter, blackboxResult, openaiResult, iterations, openaiCalls,
                   runVars, billingBefore, billingCalls>>
    /\ UNCHANGED <<requests, messages, treeVars>>

\* blackbox-agent.ts 172-186: the Vercel config request; "match" when the
\* answer holds a brace-delimited block
BlackboxVercel ==
    /\ pc = "bb_vercel"
    /\ \E out \in {"fail", "match", "nomatch"} :
        /\ blackboxCalls' = Append(blackboxCalls, IF out = "fail" THEN "fail" ELSE "ok")
        /\ insights' = [insights EXCEPT !.vercelConfig =
                            IF out = "match" THEN "{\"version\": \"2\"}"
                            ELSE generateDefaultVercelConfig(analysis)]
    /\ Report(blackboxStep,
              progressStep(steps[blackboxStep],
                           "Blackbox AI: Generating env template", "Creating .env.example"))
    /\ pc' = "bb_env"
    /\ UNCHANGED <<billingVars, gateVars, bodyVars, consumeVars, response, logged,
                   stepCounter, blackboxResult, openaiResult, iterations, openaiCalls,
                   runVars, billingBefore, billingCalls>>
    /\ UNCHANGED <<requests, messages, treeVars>>

\* blackbox-agent.ts 194-210 and orchestrator.ts 93: the env template request
\* ("fences" when the answer is nothing but code fences), the agent returns
\* and its step is completed
BlackboxEnv ==
    /\ pc = "bb_env"
    /\ \E out \in {"fail", "text", "fences"} :
        /\ blackboxCalls' = Append(blackboxCalls, IF out = "fail" THEN "fail" ELSE "ok")
        /\ blackboxResult' =
             [codeInsights |-> insights.codeInsights,
              vercelConfig |-> insights.vercelConfig,
              envTemplate |-> IF out = "fail" THEN generateDefaultEnvTemplate(analysis)
                              ELSE IF out = "text" THEN "# from the model\nAPI_KEY=changeme"
                              ELSE "",
              riskAssessment |-> insights.riskAssessment,
              suggestedScripts |-> insights.suggestedScripts]
    /\ Report(blackboxStep,
              completeStep(steps[blackboxStep], "Config & env template generated"))
    /\ pc' = "openai"
    /\ UNCHANGED <<billingVars, gateVars, bodyVars, consumeVars, response, logged,
                   stepCounter, openaiResult, insights, iterations, openaiCalls,
                   runVars, billingBefore, billingCalls>>
    /\ UNCHANGED <<requests, messages, treeVars>>

\* orchestrator.ts 99 and openai-agent.ts 99-136
StartOpenAI ==
    /\ pc = "openai"
    /\ stepCounter' = stepCounter + 1
    /\ steps' = Append(steps,
                       progressStep(NewStep(stepCounter + 1,
                                            "OpenAI: Generating README & landing page"),
                                    "Connecting to OpenAI", "Using gpt-4o-mini"))
    /\ routeSteps' = onStep(onStep(routeSteps,
                                   NewStep(stepCounter + 1,
                                           "OpenAI: Generating README & landing page")),
                            steps'[openaiStep])
    /\ pc' = "oa_loop"
    /\ UNCHANGED <<billingVars, gateVars, bodyVars, consumeVars, response, logged,
                   agentVars, runVars, billingBefore, billingCalls>>
    /\ UNCHANGED <<requests, messages, treeVars>>

\* openai-agent.ts 141-189 and orchestrator.ts 114-116: one round of the loop.
\* The completion request fails ("error"), or answers without tool calls
\* ("final"), or requests tool calls whose arguments parse ("tools") or do
\* not ("badargs": JSON.parse throws out of the agent)
OpenAIRound ==
    /\ pc = "oa_loop"
    /\ iterations < maxIterations
    /\ iterations' = iterations + 1
    /\ \E out \in {"error", "final", "tools", "badargs"} :
        /\ openaiCalls' = Append(openaiCalls, IF out = "error" THEN "fail" ELSE out)
        /\ IF out = "final"
           THEN \E answer \in Answers :
                /\ openaiResult' = parseAgentResponse(answer, analysis, repo.name)
                /\ steps' = [steps EXCEPT ![openaiStep] =
                                completeStep(progressStep(@, "OpenAI generation complete",
                                                          "Parsing response"),
                                             "README & landing page ready")]
                /\ routeSteps' =
                     onStep(onStep(routeSteps,
                                   progressStep(steps[openaiStep],
                                                "OpenAI generation complete",
                                                "Parsing response")),
                            steps'[openaiStep])
                /\ pc' = "merge"
           ELSE IF out = "tools"
           THEN /\ Report(openaiStep,
                          progressStep(steps[openaiStep], "Reading package.json",
                                       "Tool: read_repo_file"))
                /\ pc' = "oa_loop"
                /\ UNCHANGED openaiResult
           ELSE /\ Report(openaiStep,
                          failStep(steps[openaiStep],
                                   "Falling back to templates: "
                                     \o (IF out = "error" THEN "Error: Connection error."
                                         ELSE "SyntaxError: Unexpected end of JSON input")))
                /\ pc' = "merge"
                /\ UNCHANGED openaiResult
    /\ UNCHANGED <<billingVars, gateVars, bodyVars, consumeVars, response, logged,
                   stepCounter, blackboxResult, insights, blackboxCalls,
                   runVars, billingBefore, billingCalls>>
    /\ UNCHANGED <<requests, messages, treeVars>>

\* openai-agent.ts 192-193 and orchestrator.ts 114: the loop ran out
OpenAIFallback ==
    /\ pc = "oa_loop"
    /\ iterations >= maxIterations
    /\ openaiResult' = generateFallbackResult(analysis, repo.name)
    /\ Report(openaiStep, completeStep(steps[openaiStep], "README & landing page ready"))
    /\ pc' = "merge"
    /\ UNCHANGED <<billingVars, gateVars, bodyVars, consumeVars, response, logged,
                   stepCounter, blackboxResult, insights, iterations, blackboxCalls,
                   openaiCalls, runVars, billingBefore, billingCalls>>
    /\ UNCHANGED <<requests, messages, treeVars>>

\* orchestrator.ts 120
StartMerge ==
    /\ pc = "merge"
    /\ AddStep("Assembling final output")
    /\ pc' = "merging"
    /\ UNCHANGED <<billingVars, gateVars, bodyVars, consumeVars, response, logged,
                   agentVars, runVars, billingBefore, billingCalls>>
    /\ UNCHANGED <<requests, messages, treeVars>>

\* orchestrator.ts 122-178
FinishMerge ==
    /\ pc = "merging"
    /\ Report(mergeStep,
              completeStep(steps[mergeStep],
                           "Generated via " \o Provider(openaiResult, blackboxResult)))
    /\ result' =
         [analysis |-> analysis,
          aiReadme |-> MergeReadme(openaiResult, repo.name, analysis, description),
          aiLandingPage |-> MergeLandingPage(openaiResult, repo.name, analysis, description),
          vercelJson |-> MergeVercelJson(blackboxResult, analysis),
          packageJsonScripts |-> MergePackageJsonScripts(blackboxResult, analysis),
          envTemplate |-> MergeEnvTemplate(blackboxResult, analysis),
          deploymentRecommendations |-> MergeRecommendations(openaiResult, analysis),
          steps |-> steps',
          provider |-> Provider(openaiResult, blackboxResult)]
    /\ pc' = "returned"
    /\ UNCHANGED <<billingVars, gateVars, bodyVars, consumeVars, response, logged,
                   stepCounter, agentVars, analysis, thrown, billingBefore, billingCalls>>
    /\ UNCHANGED <<requests, messages, treeVars>>

(***************************************************************************)
(* POST /api/agent: after the run                                          *)
(***************************************************************************)

\* route.ts 116-121
Success ==
    [status |-> 200,
     error |-> "",
     result |-> result,
     steps |-> routeSteps,
     creditsRemaining |-> IF isPro THEN <<>>
                          ELSE <<IF credits - 1 > 0 THEN credits - 1 ELSE 0>>,
     plan |-> IF isPro THEN "pro" ELSE "credit"]

\* route.ts 107, 116: a Pro subscriber is answered without consuming
RespondPro ==
    /\ pc = "returned"
    /\ isPro
    /\ response' = Success
    /\ pc' = "done"
    /\ UNCHANGED <<billingVars, gateVars, bodyVars, consumeVars, logged,
                   stepVars, agentVars, runVars, billingBefore, billingCalls>>
    /\ UNCHANGED <<requests, messages, treeVars>>

\* the consumption without the test of the plan: a Pro subscriber's credit
\* is consumed as well
ConsumeListAlways ==
    /\ pc = "returned"
    /\ billingCalls' = billingCalls \o <<"consumeShipCredit">>
    /\ \E ok \in BOOLEAN :
        IF ~ok
        THEN /\ consumed' = "threw"
             /\ logged' = logged \cup {"Failed to consume ship credit"}
             /\ response' = Success
             /\ pc' = "done"
             /\ UNCHANGED listed
        ELSE /\ listed' = paymentIntents
             /\ IF FirstConsumable(paymentIntents) = 0
                THEN consumed' = "false" /\ response' = Success /\ pc' = "done"
                ELSE consumed' = consumed /\ response' = response /\ pc' = "consume"
             /\ UNCHANGED logged
    /\ UNCHANGED <<billingVars, gateVars, bodyVars, stepVars, agentVars, runVars,
                   billingBefore>>
    /\ UNCHANGED <<requests, messages, treeVars>>

\* stripe.ts consumeShipCredit 386-406 (and route.ts 108-121): the payments
\* are listed; with nothing to consume it returns false
ConsumeList ==
    /\ pc = "returned"
    /\ billingCalls' = billingCalls \o <<"consumeShipCredit">>
    /\ ~isPro
    /\ \E ok \in BOOLEAN :
        IF ~ok
        THEN /\ consumed' = "threw"
             /\ logged' = logged \cup {"Failed to consume ship credit"}
             /\ response' = Success
             /\ pc' = "done"
             /\ UNCHANGED listed
        ELSE /\ listed' = paymentIntents
             /\ IF FirstConsumable(paymentIntents) = 0
                THEN consumed' = "false" /\ response' = Success /\ pc' = "done"
                ELSE consumed' = consumed /\ response' = response /\ pc' = "consume"
             /\ UNCHANGED logged
    /\ UNCHANGED <<billingVars, gateVars, bodyVars, stepVars, agentVars, runVars,
                   billingBefore>>
    /\ UNCHANGED <<requests, messages, treeVars>>

\* the consumption outside any try block: its failure reaches the route's
\* outer catch and the request is answered 500
ConsumeUpdateSurfaced ==
    /\ pc = "consume"
    /\ \E ok \in BOOLEAN :
        IF ok
        THEN /\ paymentIntents' = UpdateUsed(paymentIntents, listed, FirstConsumable(listed))
             /\ consumed' = "true"
             /\ response' = Success
             /\ UNCHANGED logged
        ELSE /\ consumed' = "threw"
             /\ logged' = logged \cup {"Agent orchestrator failed"}
             /\ response' = [status |-> 500,
                             error |-> "AI generation failed. Please try again.",
                             steps |-> routeSteps]
             /\ UNCHANGED paymentIntents
    /\ pc' = "done"
    /\ UNCHANGED <<customerExists, proActive, gateVars, bodyVars, listed,
                   stepVars, agentVars, runVars, billingBefore, billingCalls>>
    /\ UNCHANGED <<requests, messages, treeVars>>

\* stripe.ts 399-402 (and route.ts 108-121): the update of the intent found
ConsumeUpdate ==
    /\ pc = "consume"
    /\ \E ok \in BOOLEAN :
        IF ok
        THEN /\ paymentIntents' = UpdateUsed(paymentIntents, listed, FirstConsumable(listed))
             /\ consumed' = "true"
             /\ UNCHANGED logged
        ELSE /\ consumed' = "threw"
             /\ logged' = logged \cup {"Failed to consume ship credit"}
             /\ UNCHANGED paymentIntents
    /\ response' = Success
    /\ pc' = "done"
    /\ UNCHANGED <<customerExists, proActive, gateVars, bodyVars, listed,
                   stepVars, agentVars, runVars, billingBefore, billingCalls>>
    /\ UNCHANGED <<requests, messages, treeVars>>

Next ==
    \/ Receive \/ GetCustomer \/ CheckPayment \/ ParseRequest
    \/ FinishAnalysis
    \/ StartBlackbox \/ EnterBlackbox \/ ReadRepository
    \/ BlackboxAnalysis \/ BlackboxVercel \/ BlackboxEnv
    \/ StartOpenAI \/ OpenAIRound \/ OpenAIFallback
    \/ StartMerge \/ FinishMerge
    \/ RespondPro \/ ConsumeList \/ ConsumeUpdate
    \/ NextRequest

Spec == Init /\ [][Next]_vars

\* the customers the progress of a run is checked for: a Pro subscriber
\* without payments, and customers with at most one Ship Credit payment
LiveInit ==
    /\ Init
    /\ Len(paymentIntents) <= 1
    /\ proActive => paymentIntents = <<>>

\* a step of runOrchestrator after the analysis
RunStep ==
    \/ StartBlackbox \/ EnterBlackbox \/ ReadRepository
    \/ BlackboxAnalysis \/ BlackboxVercel \/ BlackboxEnv
    \/ StartOpenAI \/ OpenAIRound \/ OpenAIFallback
    \/ StartMerge \/ FinishMerge

\* every awaited call of a run returns or fails and its continuation then
\* runs; nothing is assumed about when requests arrive
LiveSpec == LiveInit /\ [][Next]_vars /\ WF_vars(RunStep)

(***************************************************************************)
(* lib/stripe.ts called directly, one call after the other                 *)
(***************************************************************************)

\* no request is in progress
RequestIdle ==
    /\ session = ""
    /\ isPro = FALSE
    /\ credits = 0
    /\ repo = Null
    /\ description = ""
    /\ routeSteps = <<>>
    /\ listed = <<>>
    /\ consumed = ""
    /\ response = NoResponse
    /\ logged = {}
    /\ steps = <<>>
    /\ stepCounter = 0
    /\ analysis = Null
    /\ blackboxResult = Null
    /\ openaiResult = Null
    /\ result = Null
    /\ thrown = ""
    /\ insights = NoInsights
    /\ iterations = 0
    /\ blackboxCalls = <<>>
    /\ openaiCalls = <<>>
    /\ billingCalls = <<>>

\* the payments the code creates or leaves behind
IntentKinds == {IntentUnused, IntentUsed, IntentUnpaid, IntentOther}

\* the longest payment list of a customer
MaxIntents == 4

\* every payment list of a customer, up to MaxIntents payments
AllWallets == UNION { [1..n -> IntentKinds] : n \in 0..MaxIntents }

BillingInit ==
    /\ RequestIdle
    /\ pc = "billing"
    /\ NoTree
    /\ requests = <<>>
    /\ messages = <<>>
    /\ customerExists = TRUE
    /\ proActive = FALSE
    /\ paymentIntents \in AllWallets
    /\ billingBefore = Billing

\* stripe.ts 385-407 and 361-379: one call of consumeShipCredit (the list or
\* the update may throw), then one of getShipCredits
ConsumeShipCreditCall ==
    /\ pc = "billing"
    /\ \E out \in {"ok", "list throws", "update throws"} :
        IF out = "list throws"
        THEN /\ consumed' = "threw"
             /\ UNCHANGED <<listed, paymentIntents>>
        ELSE /\ listed' = paymentIntents
             /\ IF FirstConsumable(paymentIntents) = 0
                THEN consumed' = "false" /\ UNCHANGED paymentIntents
                ELSE IF out = "update throws"
                THEN consumed' = "threw" /\ UNCHANGED paymentIntents
                ELSE /\ paymentIntents' =
                          UpdateUsed(paymentIntents, paymentIntents,
                                     FirstConsumable(paymentIntents))
                     /\ consumed' = "true"
    /\ credits' = getShipCredits(paymentIntents')
    /\ billingCalls' = <<"consumeShipCredit", "getShipCredits">>
    /\ UNCHANGED <<customerExists, proActive, pc, session, isPro, bodyVars, response,
                   logged, stepVars, agentVars, runVars, billingBefore>>
    /\ UNCHANGED <<requests, messages, treeVars>>

BillingSpec == BillingInit /\ [][ConsumeShipCreditCall]_vars

(***************************************************************************)
(* RepoAnalyzer and the template generators applied to a family of         *)
(* repositories (POST /api/generate without its session check)             *)
(***************************************************************************)

NODE_ENV   == <<"N","O","D","E","_","E","N","V">>
JWT_SECRET == <<"J","W","T","_","S","E","C","R","E","T">>
BASE_URL   == <<"B","A","S","E","_","U","R","L">>

\* the packages detectFramework looks for, in the order it looks for them
FrameworkDeps == <<"next", "react", "vue", "svelte", "nuxt", "gatsby", "remix", "astro">>

\* the packages a manifest of the family may depend on
DepNames == {FrameworkDeps[i] : i \in 1..Len(FrameworkDeps)} \cup {"express", "lodash"}

\* the most packages a manifest of the family depends on
MaxDeps == 2

DepSets == {s \in SUBSET DepNames : Cardinality(s) <= MaxDeps}

\* package.json with its packages under dependencies, under devDependencies,
\* or with neither key
DepLayouts ==
    {[hasDependencies |-> TRUE, dependencies |-> s,
      hasDevDependencies |-> FALSE, devDependencies |-> {}] : s \in DepSets}
    \cup {[hasDependencies |-> FALSE, dependencies |-> {},
           hasDevDependencies |-> TRUE, devDependencies |-> s] : s \in DepSets}
    \cup {[hasDependencies |-> TRUE, dependencies |-> {"react"},
           hasDevDependencies |-> TRUE, devDependencies |-> {"next"}],
          [hasDependencies |-> FALSE, dependencies |-> {},
           hasDevDependencies |-> FALSE, devDependencies |-> {}]}

ScriptSets ==
    {NoScripts,
     [build |-> "next build", start |-> "next start", dev |-> "next dev"],
     [build |-> "vite build", start |-> "", dev |-> ""]}

\* the three example files: none, five distinct variables, six distinct variables
EnvFileSets ==
    {<< <<>>, <<>>, <<>> >>,
     << <<API_KEY, DB_HOST, PORT>>, <<PORT, NODE_ENV, JWT_SECRET>>, <<>> >>,
     << <<API_KEY, DB_HOST, PORT>>, <<PORT, NODE_ENV, JWT_SECRET>>, <<BASE_URL, API_KEY>> >>}

Manifest(layout, scripts, mentions) ==
    [hasDependencies |-> layout.hasDependencies, dependencies |-> layout.dependencies,
     hasDevDependencies |-> layout.hasDevDependencies,
     devDependencies |-> layout.devDependencies,
     scripts |-> scripts, mentionsNextConfig |-> mentions]

RepoFamily ==
    {[name |-> "app", pkgFile |-> "ok", pkg |-> Manifest(l, s, m),
      hasDockerfile |-> d, envFiles |-> e] :
        l \in DepLayouts, s \in ScriptSets, m \in BOOLEAN, d \in BOOLEAN, e \in EnvFileSets}
    \cup {[name |-> "app", pkgFile |-> f, pkg |-> Null,
           hasDockerfile |-> d, envFiles |-> e] :
        f \in {"missing", "malformed"}, d \in BOOLEAN, e \in EnvFileSets}

AnalyzerInit ==
    /\ RequestIdle
    /\ pc = "analyzer"
    /\ NoTree
    /\ requests = <<>>
    /\ messages = <<>>
    /\ customerExists = FALSE
    /\ proActive = FALSE
    /\ paymentIntents = <<>>
    /\ billingBefore = Billing

\* analyzer.analyze(owner, repo) of one repository of the family
AnalyzeRepo ==
    /\ pc = "analyzer"
    /\ \E r \in RepoFamily :
        /\ repo' = r
        /\ analysis' = analyze(r)
    /\ pc' = "generator"
    /\ UNCHANGED <<billingVars, session, isPro, credits, description,
                   consumeVars, response, logged, stepVars, blackboxResult,
                   openaiResult, result, thrown, insights, iterations,
                   blackboxCalls, openaiCalls, billingBefore, billingCalls>>
    /\ UNCHANGED <<requests, messages, treeVars>>

\* the generated object of POST /api/generate
GenerateFiles ==
    /\ pc = "generator"
    /\ result' = [vercelJson |-> generateVercelJsonFile(analysis),
                  packageJsonScripts |-> generatePackageJsonScripts(analysis),
                  envTemplate |-> generateEnvTemplate(analysis),
                  readme |-> generateReadme(repo.name, analysis, description),
                  landingPage |-> generateLandingPage(repo.name, analysis, description)]
    /\ pc' = "generated"
    /\ UNCHANGED <<billingVars, session, isPro, credits, bodyVars,
                   consumeVars, response, logged, stepVars, analysis, blackboxResult,
                   openaiResult, thrown, insights, iterations,
                   blackboxCalls, openaiCalls, billingBefore, billingCalls>>
    /\ UNCHANGED <<requests, messages, treeVars>>

AnalyzerSpec == AnalyzerInit /\ [][AnalyzeRepo \/ GenerateFiles]_vars

(***************************************************************************)
(* POST /api/agent, several requests of one customer in flight at once.    *)
(* Every await of the handler is a point where another request may run;    *)
(* Stripe answers every call.                                              *)
(***************************************************************************)

\* the number of requests in flight
NumRequests == 2

\* the locals of a request that has passed the session checks
NewRequest == [pc |-> "check", isPro |-> FALSE, credits |-> 0, listed |-> <<>>,
               consumed |-> "", status |-> 0]

ConcurrentInit ==
    /\ RequestIdle
    /\ pc = "concurrent"
    /\ customerExists = TRUE
    /\ proActive = FALSE
    /\ paymentIntents \in Wallets
    /\ billingBefore = Billing
    /\ NoTree
    /\ requests = [r \in 1..NumRequests |-> NewRequest]
    /\ messages = <<>>

\* what belongs to the one request of the other specifications
singleVars == <<customerExists, proActive, pc, gateVars, bodyVars, consumeVars,
                response, logged, stepVars, agentVars, runVars, billingBefore,
                billingCalls, messages, treeVars>>

\* route.ts 40-66: the payment gate of request r
PaymentGate(r) ==
    /\ requests[r].pc = "check"
    /\ LET paid == proActive
           count == getShipCredits(paymentIntents)
       IN requests' = [requests EXCEPT ![r] =
              [@ EXCEPT !.isPro = paid,
                        !.credits = count,
                        !.pc = IF HasAccess(paid, count) THEN "run" ELSE "done",
                        !.status = IF HasAccess(paid, count) THEN 0 ELSE 402]]
    /\ UNCHANGED <<paymentIntents, singleVars>>

\* route.ts 87-104 and 122-130: runOrchestrator returns its result or throws
RunAgent(r) ==
    /\ requests[r].pc = "run"
    /\ \E ok \in BOOLEAN :
        requests' = [requests EXCEPT ![r] =
            IF ~ok THEN [@ EXCEPT !.pc = "done", !.status = 500]
            ELSE IF @.isPro THEN [@ EXCEPT !.pc = "done", !.status = 200]
            ELSE [@ EXCEPT !.pc = "list"]]
    /\ UNCHANGED <<paymentIntents, singleVars>>

\* stripe.ts 386-398 (and route.ts 116-121 when no credit is found): the list
\* of consumeShipCredit and its loop
ConsumeListOf(r) ==
    /\ requests[r].pc = "list"
    /\ requests' = [requests EXCEPT ![r] =
           IF FirstConsumable(paymentIntents) = 0
           THEN [@ EXCEPT !.listed = paymentIntents, !.consumed = "false",
                          !.pc = "done", !.status = 200]
           ELSE [@ EXCEPT !.listed = paymentIntents, !.pc = "update"]]
    /\ UNCHANGED <<paymentIntents, singleVars>>

\* stripe.ts 399-402 and route.ts 116-121: the update of the intent found in
\* the list, and the answer
ConsumeUpdateOf(r) ==
    /\ requests[r].pc = "update"
    /\ paymentIntents' = UpdateUsed(paymentIntents, requests[r].listed,
                                    FirstConsumable(requests[r].listed))
    /\ requests' = [requests EXCEPT ![r] =
           [@ EXCEPT !.consumed = "true", !.pc = "done", !.status = 200]]
    /\ UNCHANGED singleVars

ConcurrentNext ==
    \/ \E r \in DOMAIN requests : PaymentGate(r)
    \/ \E r \in DOMAIN requests : RunAgent(r)
    \/ \E r \in DOMAIN requests : ConsumeListOf(r)
    \/ \E r \in DOMAIN requests : ConsumeUpdateOf(r)

ConcurrentSpec == ConcurrentInit /\ [][ConcurrentNext]_vars

(***************************************************************************)
(* runOpenAIAgent taken alone, without a progress callback, for the        *)
(* repository RepoNext: every iteration of its while loop with the         *)
(* transcript it builds                                                    *)
(***************************************************************************)

\* the tool calls of a round and the messages the round pushed after them
PlainRound(i) ==
    /\ Len(messages[i].tool_calls) = 1
    /\ messages[i].tool_calls[1].name = "read_repo_file"
    /\ i < Len(messages)
    /\ messages[i + 1].content = ShortFile.head

\* the rounds with tool calls other than one file read that found its file
VariedRounds ==
    Cardinality({i \in 1..Len(messages) :
                    /\ messages[i].role = "assistant"
                    /\ messages[i].tool_calls # <<>>
                    /\ ~PlainRound(i)})

\* the most rounds of a run that are not plain
MaxVariedRounds == 1

AgentLoopInit ==
    /\ customerExists = FALSE
    /\ proActive = FALSE
    /\ paymentIntents = <<>>
    /\ billingBefore = Billing
    /\ pc = "oa_request"
    /\ session = ""
    /\ isPro = FALSE
    /\ credits = 0
    /\ repo = RepoNext
    /\ description = ""
    /\ routeSteps = <<>>
    /\ listed = <<>>
    /\ consumed = ""
    /\ response = NoResponse
    /\ logged = {}
    /\ steps = <<>>
    /\ stepCounter = 0
    /\ analysis = analyze(RepoNext)
    /\ blackboxResult = Null
    /\ openaiResult = Null
    /\ result = Null
    /\ thrown = ""
    /\ insights = NoInsights
    /\ iterations = 0
    /\ blackboxCalls = <<>>
    /\ openaiCalls = <<>>
    /\ billingCalls = <<>>
    /\ NoTree
    /\ requests = <<>>
    /\ messages = <<Message("system", "You are Shipwright AI", <<>>, ""),
                    Message("user", "Analyze the repository", <<>>, "")>>

\* what stays as it is while the agent runs
loopFrame == <<billingVars, gateVars, bodyVars, consumeVars, response, logged, stepVars,
               analysis, blackboxResult, result, insights, blackboxCalls,
               billingBefore, billingCalls, requests, treeVars>>

\* openai-agent.ts 141-190: one iteration of the while loop. The completion
\* request fails, or the model gives its final answer, or it requests tool
\* calls and the for loop runs them
CompletionRound ==
    /\ pc = "oa_request"
    /\ iterations < maxIterations
    /\ iterations' = iterations + 1
    /\ \/ /\ openaiCalls' = Append(openaiCalls, "fail")
          /\ thrown' = "Error: Connection error."
          /\ pc' = "oa_threw"
          /\ UNCHANGED <<messages, openaiResult>>
       \/ \E content \in Answers :
          /\ openaiCalls' = Append(openaiCalls, "final")
          /\ messages' = Append(messages, Message("assistant", content, <<>>, ""))
          /\ openaiResult' = parseAgentResponse(content, analysis, repo.name)
          /\ pc' = "oa_done"
          /\ UNCHANGED thrown
       \/ \E calls \in ToolCallBatches(iterations + 1), github \in GitHubStates :
          LET loop == ToolLoop(calls, github) IN
          /\ messages' = Append(messages, Message("assistant", AnswerEmpty, calls, ""))
                             \o loop.pushed
          /\ VariedRounds' <= MaxVariedRounds
          /\ openaiCalls' = Append(openaiCalls, IF loop.threw THEN "badargs" ELSE "tools")
          /\ thrown' = IF loop.threw THEN "SyntaxError: Unexpected end of JSON input"
                       ELSE thrown
          /\ pc' = IF loop.threw THEN "oa_threw" ELSE pc
          /\ UNCHANGED openaiResult
    /\ UNCHANGED loopFrame

\* openai-agent.ts 192-193: the loop ran out of iterations
LoopFallback ==
    /\ pc = "oa_request"
    /\ iterations >= maxIterations
    /\ openaiResult' = generateFallbackResult(analysis, repo.name)
    /\ pc' = "oa_done"
    /\ UNCHANGED <<iterations, openaiCalls, thrown, messages, loopFrame>>

AgentLoopSpec == AgentLoopInit /\ [][CompletionRound \/ LoopFallback]_vars

(***************************************************************************)
(* getFileTree taken alone: one call for every repository of the family    *)
(* and every depth limit                                                   *)
(***************************************************************************)

\* the largest maxDepth a call is made with (the agent passes 1, the
\* default is 2)
MaxDepthArg == 2

FileTreeInit ==
    /\ RequestIdle
    /\ pc = "tree_call"
    /\ customerExists = FALSE
    /\ proActive = FALSE
    /\ paymentIntents = <<>>
    /\ billingBefore = Billing
    /\ requests = <<>>
    /\ messages = <<>>
    /\ tree \in RepoTrees
    /\ maxDepth \in 0..MaxDepthArg
    /\ fileTree = <<>>
    /\ fetched = <<>>

\* blackbox-agent.ts 474-502: the call runs to its return statement; no
\* statement of it is outside a try block that catches everything
GetFileTree ==
    /\ pc = "tree_call"
    /\ fileTree' = getFileTree(tree, maxDepth).files
    /\ fetched' = getFileTree(tree, maxDepth).fetched
    /\ pc' = "tree_returned"
    /\ UNCHANGED <<billingVars, gateVars, bodyVars, consumeVars, response, logged, stepVars,
                   agentVars, runVars, billingBefore, billingCalls, requests, messages,
                   tree, maxDepth>>

FileTreeSpec == FileTreeInit /\ [][GetFileTree]_vars

(***************************************************************************)
(* Properties                                                              *)
(***************************************************************************)

\* the request was answered
Answered == pc = "done"

\* the credit count the gate of this request started from
PreRunCredits == getShipCredits(billingBefore.paymentIntents)

\* the orchestration run ended with a failed step i
StepFailed(i) == Len(steps) >= i /\ steps[i].status = "error"

\* C1: a non-Pro request whose orchestration returned a result and whose
\* consumeShipCredit returned true leaves getShipCredits one below the
\* pre-run count; a request whose orchestration threw in Analyze leaves it
\* at the pre-run count.
C1_CreditLaw ==
    /\ (Answered /\ ~isPro /\ result # Null /\ consumed = "true")
         => /\ credits = PreRunCredits
            /\ getShipCredits(paymentIntents) = PreRunCredits - 1
    /\ (Answered /\ thrown # "")
         => /\ StepFailed(analysisStep)
            /\ consumed = ""
            /\ getShipCredits(paymentIntents) = PreRunCredits

C1_Witness ==
    /\ Answered /\ ~isPro /\ result # Null /\ consumed = "true"
    /\ PreRunCredits = 2
    /\ getShipCredits(paymentIntents) = 1

\* the billing check of this request ran to its end
BillingChecked == session = "user" /\ "Payment check failed" \notin logged

\* the gate found an active Pro subscription or a credit
AccessFound == BillingChecked /\ (isPro \/ credits > 0)

\* no stage ran and the subscription and the credits are as they were
NothingRun ==
    /\ steps = <<>> /\ stepCounter = 0 /\ result = Null
    /\ blackboxCalls = <<>> /\ openaiCalls = <<>>

\* C2 as stated: the orchestrator starts only after the gate found access,
\* and every other authenticated request is answered 402 with no stage run
\* and the billing state unchanged.
C2_EveryOtherRequestIs402 ==
    /\ steps # <<>> => AccessFound
    /\ (Answered /\ session # "none" /\ ~AccessFound)
         => /\ response.status = 402
            /\ NothingRun
            /\ Billing = billingBefore

\* C2 amended: the orchestrator starts only after the gate found access; an
\* authenticated request without it runs no stage and leaves the
\* subscription and the payment intents unchanged, and is answered 402 when
\* the billing check ran to its end, 403 when the session has no email and
\* 500 when a billing call failed.
C2_PaymentGate ==
    /\ steps # <<>> => AccessFound
    /\ (Answered /\ session # "none" /\ ~AccessFound)
         => /\ NothingRun
            /\ proActive = billingBefore.proActive
            /\ paymentIntents = billingBefore.paymentIntents
            /\ response.status =
                 IF session = "noemail" THEN 403
                 ELSE IF BillingChecked THEN 402
                 ELSE 500
            /\ response.status = 402 => response.error = "payment_required"

C2_Witness ==
    /\ Answered /\ session = "user" /\ BillingChecked /\ ~AccessFound
    /\ response.status = 402
    /\ customerExists /\ ~billingBefore.customerExists

\* every request the agent made failed
AllFailed(calls) == \A i \in 1..Len(calls) : calls[i] = "fail"

\* the error entries of a step list
ErrorSteps(list) == { i \in 1..Len(list) : list[i].status = "error" }

\* C3 as stated: when every request to the content model and every request
\* to the code-insight model fails, the run still returns, with provider
\* "template" and exactly one error entry for each AI stage.
C3_UnreachableEndpointsGiveTemplate ==
    (result # Null /\ blackboxCalls # <<>> /\ openaiCalls # <<>>
       /\ AllFailed(blackboxCalls) /\ AllFailed(openaiCalls))
      => /\ result.provider = "template"
         /\ ErrorSteps(result.steps) = {blackboxStep, openaiStep}

C6_ProviderTag ==
    result # Null
      => LET oa == ~StepFailed(openaiStep)
             bb == ~StepFailed(blackboxStep)
         IN /\ (oa /\ bb) => result.provider = "openai"
            /\ (oa /\ ~bb) => result.provider = "openai"
            /\ (~oa /\ bb) => result.provider = "blackbox"
            /\ (~oa /\ ~bb) => result.provider = "template"

C6_Witness ==
    /\ Answered /\ result # Null
    /\ ~StepFailed(blackboxStep) /\ StepFailed(openaiStep)
    /\ result.provider = "blackbox"

\* C7: when the analysis throws, its step is the only step and has status
\* error, no request of either agent was made, no result exists, and the
\* run rejected with an error whose message begins "Repository analysis
\* failed"; the route answers 500.
C7_AnalyzeFailureAborts ==
    StepFailed(analysisStep)
      => /\ Len(steps) = 1
         /\ steps[analysisStep].detail = "Error: analyze failed"
         /\ analysis = Null /\ blackboxResult = Null /\ openaiResult = Null
         /\ blackboxCalls = <<>> /\ openaiCalls = <<>>
         /\ result = Null
         /\ thrown = "Repository analysis failed: " \o steps[analysisStep].detail
         /\ Answered /\ response.status = 500
         /\ response.steps = steps

C7_Witness ==
    /\ Answered /\ StepFailed(analysisStep)
    /\ thrown # "" /\ response.status = 500
    /\ repo = RepoReact

\* the program positions inside the Blackbox agent
InBlackbox == pc \in {"bb_enter", "bb_read", "bb_analysis", "bb_vercel", "bb_env"}

\* the agent's stage is over and left no result
BlackboxFailed == Len(steps) >= blackboxStep /\ ~InBlackbox /\ blackboxResult = Null
OpenAIFailed == Len(steps) >= openaiStep /\ pc # "oa_loop" /\ openaiResult = Null

\* what the orchestrator writes into the step of a failed agent
FailureDetails ==
    { "Falling back to templates: " \o e :
        e \in {"Error: agent failed", "Error: Connection error.",
               "SyntaxError: Unexpected end of JSON input"} }

\* an agent failure is an error step holding the failure detail, and the run
\* goes on: nothing is thrown, and an answered request whose analysis
\* succeeded has a result
C8_FailuresRecorded ==
    /\ BlackboxFailed => /\ StepFailed(blackboxStep)
                         /\ steps[blackboxStep].detail \in FailureDetails
                         /\ thrown = ""
    /\ OpenAIFailed => /\ StepFailed(openaiStep)
                       /\ steps[openaiStep].detail \in FailureDetails
                       /\ thrown = ""
    /\ (Answered /\ analysis # Null) => (result # Null /\ response.status = 200)

\* C8: once the analysis succeeded the run eventually returns a result; a
\* failure of an agent is recorded as an error step with the failure detail
\* and never aborts the run.
C8_RunCompletes ==
    /\ []C8_FailuresRecorded
    /\ (analysis # Null) ~> (result # Null)

C8_Witness ==
    /\ Answered /\ result # Null
    /\ BlackboxFailed /\ OpenAIFailed
    /\ Len(openaiCalls) = 3

\* C9: when a billing call fails, the request is answered 500 "Payment
\* verification failed. Please try again.", no stage ran and no credit was
\* consumed.
C9_BillingFailsClosed ==
    "Payment check failed" \in logged
      => /\ Answered
         /\ response = ErrorResponse(500, "Payment verification failed. Please try again.")
         /\ NothingRun
         /\ consumed = "" /\ listed = <<>>
         /\ paymentIntents = billingBefore.paymentIntents

C9_Witness ==
    /\ Answered /\ "Payment check failed" \in logged
    /\ response.status = 500
    /\ getShipCredits(paymentIntents) = 2

\* C10: when consumeShipCredit throws after the orchestrator returned a
\* result, the request is still answered 200 with that result, and the
\* failure is logged.
C10_ConsumeFailureSwallowed ==
    consumed = "threw"
      => /\ Answered
         /\ result # Null
         /\ response.status = 200
         /\ response.result = result
         /\ response.steps = result.steps
         /\ "Failed to consume ship credit" \in logged

C10_Witness ==
    /\ Answered /\ consumed = "threw"
    /\ response.status = 200
    /\ listed # <<>>
    /\ getShipCredits(paymentIntents) = PreRunCredits

\* the calls of consumeShipCredit among the billing calls of the request
ConsumeCalls == { i \in 1..Len(billingCalls) : billingCalls[i] = "consumeShipCredit" }

\* the three billing reads, in the order the gate makes them
BillingReads == <<"getOrCreateCustomer", "hasActiveProSubscription", "getShipCredits">>

\* within a request: the reads come first, and consumeShipCredit is called
\* at most once, after the result, for a customer who is not subscribed
C11_CallOrder ==
    /\ steps # <<>>
         => (Len(billingCalls) >= 3 /\ SubSeq(billingCalls, 1, 3) = BillingReads)
    /\ Cardinality(ConsumeCalls) <= 1
    /\ \A i \in ConsumeCalls :
         /\ i = 4
         /\ result # Null
         /\ ~proActive /\ ~isPro

\* C11: the three billing reads happen before runOrchestrator starts;
\* consumeShipCredit is called at most once, only after runOrchestrator
\* returned a result and never for a Pro subscriber; no step of any request
\* changes the payment intents of a Pro subscriber.
C11_BillingCalls ==
    /\ []C11_CallOrder
    /\ [][proActive => paymentIntents' = paymentIntents]_vars

C11_Witness ==
    /\ Answered /\ ~proActive
    /\ billingCalls = BillingReads \o <<"consumeShipCredit">>
    /\ result # Null
    /\ getShipCredits(paymentIntents) = 0 /\ PreRunCredits = 1

\* a succeeded ship_credit payment with used < quantity
Unconsumed(pi) ==
    /\ pi.status = "succeeded" /\ pi.type = "ship_credit"
    /\ MetaNumber(pi.used, 0) < MetaNumber(pi.quantity, 1)

\* C12: consumeShipCredit returns false and changes no payment intent when
\* the customer has no unconsumed ship credit; otherwise it returns true and
\* raises used by one on exactly one unconsumed intent and leaves every
\* other intent unchanged; after any sequence of calls getShipCredits is a
\* non-negative integer and used <= quantity on every ship_credit intent.
C12_ConsumeShipCredit ==
    /\ consumed = "false"
         => /\ paymentIntents = listed
            /\ \A i \in 1..Len(listed) : ~Unconsumed(listed[i])
    /\ consumed = "true"
         => /\ Len(paymentIntents) = Len(listed)
            /\ \E i \in 1..Len(listed) :
                 /\ Unconsumed(listed[i])
                 /\ paymentIntents[i] =
                      [listed[i] EXCEPT !.used = <<MetaNumber(listed[i].used, 0) + 1>>]
                 /\ \A j \in 1..Len(listed) : j # i => paymentIntents[j] = listed[j]
            /\ getShipCredits(paymentIntents) = getShipCredits(listed) - 1
    /\ (consumed \in {"true", "false"})
         => (consumed = "true" <=> \E i \in 1..Len(listed) : Unconsumed(listed[i]))
    /\ billingCalls # <<>> => credits = getShipCredits(paymentIntents)
    /\ getShipCredits(paymentIntents) \in Nat
    /\ \A i \in 1..Len(paymentIntents) :
         paymentIntents[i].type = "ship_credit"
           => MetaNumber(paymentIntents[i].used, 0) <= MetaNumber(paymentIntents[i].quantity, 1)

C12_Witness ==
    /\ pc = "billing" /\ consumed = "true"
    /\ listed = <<IntentUsed, IntentUnpaid, IntentOther, IntentUnused>>
    /\ paymentIntents = <<IntentUsed, IntentUnpaid, IntentOther, IntentUsed>>
    /\ credits = 0

\* C13 as stated: every result of runOrchestrator carries exactly 3
\* deployment recommendations, each a defined (non-empty) string, whether
\* they come from the content agent or from the rule-based default list.
C13_ThreeRecommendations ==
    result # Null
      => /\ Len(result.deploymentRecommendations) = 3
         /\ \A i \in 1..Len(result.deploymentRecommendations) :
              result.deploymentRecommendations[i] # ""

\* the endpoint answered every request the agent made
AllAnswered(calls) == \A i \in 1..Len(calls) : calls[i] # "fail"

\* the stage of the agent is over
BlackboxOver == Len(steps) >= blackboxStep /\ ~InBlackbox
OpenAIOver == Len(steps) >= openaiStep /\ pc # "oa_loop"

\* C14 as stated: whatever the models answer (bad JSON, the JSON of a tool
\* call's arguments included, missing fields, unmatched patterns), an agent
\* whose requests were all answered does not fail: it returns a result in
\* which every field is set, a missing one to its default.
C14_ParsingLeniency ==
    /\ (OpenAIOver /\ AllAnswered(openaiCalls))
         => /\ ~StepFailed(openaiStep)
            /\ openaiResult # Null
            /\ openaiResult.readme # ""
            /\ openaiResult.deploymentRecommendations # <<>>
            /\ JSONparse(openaiResult.landingPageCopy).headline # ""
            /\ JSONparse(openaiResult.landingPageCopy).subheadline # ""
    /\ (BlackboxOver /\ Len(blackboxCalls) = 3 /\ AllAnswered(blackboxCalls))
         => /\ ~StepFailed(blackboxStep)
            /\ blackboxResult # Null
            /\ blackboxResult.codeInsights # ""
            /\ blackboxResult.vercelConfig # ""

\* C15: runOpenAIAgent issues at most 8 completion requests; the first
\* response without a tool call ends the loop and is parsed; when all 8
\* responses request tool calls the agent returns generateFallbackResult,
\* built from the analysis alone, and its step is done, not failed.
C15_IterationBound ==
    /\ Len(openaiCalls) <= 8
    /\ iterations = Len(openaiCalls)
    /\ \A i \in 1..Len(openaiCalls) :
         openaiCalls[i] # "tools" => (i = Len(openaiCalls) /\ pc # "oa_loop")
    /\ (openaiCalls # <<>> /\ openaiCalls[Len(openaiCalls)] = "final")
         => /\ ~StepFailed(openaiStep)
            /\ openaiResult \in { parseAgentResponse(a, analysis, repo.name) : a \in Answers }
    /\ (OpenAIOver /\ Len(openaiCalls) = 8 /\ \A i \in 1..8 : openaiCalls[i] = "tools")
         => /\ openaiResult = generateFallbackResult(analysis, repo.name)
            /\ steps[openaiStep].status = "done"

C15_Witness ==
    /\ Answered /\ result # Null
    /\ Len(openaiCalls) = 8 /\ \A i \in 1..8 : openaiCalls[i] = "tools"
    /\ openaiResult = generateFallbackResult(analysis, repo.name)
    /\ result.provider = "openai"

(***************************************************************************)
(* C16: for every RepoAnalysis the risk score is min(100, 20 without a     *)
(* build script + 10 without a Dockerfile + 5 per missing config + 15 with *)
(* more than five detected variables) and lies in 0..100; a manifest with  *)
(* only a next dependency, no Dockerfile and no env files misses the four  *)
(* configs and scores 20 + 10 + 20.                                        *)
(***************************************************************************)
WeightedSum ==
    (IF analysis.buildScript = "" THEN 20 ELSE 0)
        + (IF analysis.hasDocker THEN 0 ELSE 10)
        + 5 * Len(analysis.missingConfigs)
        + (IF Len(analysis.envVarsDetected) > 5 THEN 15 ELSE 0)

\* package.json is { "dependencies": { "next": ... } } and nothing else
OnlyNextManifest ==
    /\ repo # Null
    /\ repo.pkgFile = "ok"
    /\ MergedDeps(repo.pkg) = {"next"}
    /\ repo.pkg.scripts = NoScripts
    /\ ~repo.pkg.mentionsNextConfig
    /\ ~repo.hasDockerfile
    /\ repo.envFiles = << <<>>, <<>>, <<>> >>

C16_RiskScore ==
    analysis # Null =>
        /\ analysis.deploymentRiskScore =
               (IF WeightedSum < 100 THEN WeightedSum ELSE 100)
        /\ analysis.deploymentRiskScore \in 0..100
        /\ OnlyNextManifest =>
               /\ analysis.missingConfigs =
                      <<"build script", "start script", "dev script", "next.config.js">>
               /\ analysis.deploymentRiskScore = 20 + 10 + 20

\* the only-next manifest was analysed, and so was a repository with exactly
\* five and one with more than five variables
C16_Witness ==
    /\ analysis # Null
    /\ OnlyNextManifest
    /\ analysis.deploymentRiskScore = 50

C16_WitnessManyVars ==
    /\ analysis # Null
    /\ Len(analysis.envVarsDetected) > 5
    /\ analysis.deploymentRiskScore = 15

(***************************************************************************)
(* C17: framework detection returns the first match of a fixed priority    *)
(* order over the merged dependencies and devDependencies (Next.js before  *)
(* React, then the other known frameworks); when nothing matches it        *)
(* returns "Node.js" if a manifest exists and "Unknown" only if there is   *)
(* none.                                                                   *)
(***************************************************************************)
FrameworkNames == <<"Next.js", "React", "Vue", "Svelte", "Nuxt", "Gatsby", "Remix", "Astro">>

\* the manifest was fetched and parsed
ManifestExists == repo.pkgFile = "ok"

\* the position of the first package of the priority order the manifest
\* depends on, 0 when it depends on none of them
FirstMatch ==
    LET deps == IF ManifestExists THEN MergedDeps(repo.pkg) ELSE {}
        hits == {i \in 1..Len(FrameworkDeps) : FrameworkDeps[i] \in deps}
    IN IF hits = {} THEN 0 ELSE CHOOSE i \in hits : \A j \in hits : i <= j

C17_FrameworkPriority ==
    analysis # Null =>
        analysis.framework =
            IF FirstMatch # 0 THEN FrameworkNames[FirstMatch]
            ELSE IF ManifestExists THEN "Node.js" ELSE "Unknown"

(***************************************************************************)
(* C18: when package.json cannot be fetched or cannot be parsed,           *)
(* RepoAnalyzer.analyze still returns a RepoAnalysis, with framework       *)
(* "Unknown", backendType "Frontend", no buildScript and the build and     *)
(* start scripts reported missing, and the Analyze stage of the            *)
(* orchestrator is done.                                                   *)
(***************************************************************************)
ManifestFailed == repo # Null /\ repo.pkgFile \in {"missing", "malformed"}

C18_ManifestFailureDegrades ==
    (ManifestFailed /\ analysis # Null) =>
        /\ analysis.framework = "Unknown"
        /\ analysis.backendType = "Frontend"
        /\ analysis.buildScript = ""
        /\ SeqIncludes(analysis.missingConfigs, "build script")
        /\ SeqIncludes(analysis.missingConfigs, "start script")
        /\ Len(steps) >= analysisStep
        /\ steps[analysisStep].status = "done"
        /\ thrown = ""

\* a repository whose package.json does not parse was analysed and the run
\* went on to its result
C18_Witness ==
    /\ repo # Null
    /\ repo.pkgFile = "malformed"
    /\ analysis # Null
    /\ steps[analysisStep].status = "done"
    /\ result # Null

C18_WitnessMissing ==
    /\ repo # Null
    /\ repo.pkgFile = "missing"
    /\ analysis # Null
    /\ steps[analysisStep].status = "done"

(***************************************************************************)
(* C19: a fetch or parse failure on the manifest during the Analyze stage  *)
(* is fatal: the orchestration aborts, the caller gets a single            *)
(* descriptive error and no AgentResult is produced.                       *)
(***************************************************************************)
C19_ManifestFailureIsFatal ==
    (ManifestFailed /\ Answered) =>
        /\ StepFailed(analysisStep)
        /\ thrown # ""
        /\ result = Null
        /\ response.status = 500

(***************************************************************************)
(* C19, as the code has it: a fetch or parse failure on the manifest is    *)
(* not fatal, the run goes on with the default facts to a full             *)
(* AgentResult; the orchestration aborts only when an exception escapes    *)
(* RepoAnalyzer.analyze, and then the caller gets the single error         *)
(* "Repository analysis failed: <exception>" and no AgentResult.           *)
(***************************************************************************)
\* the exception that escapes analyze, as String(err)
EscapedException == "Error: analyze failed"

C19_OnlyEscapedExceptionIsFatal ==
    /\ (ManifestFailed /\ Answered /\ thrown = "") =>
            /\ response.status = 200
            /\ response.result # Null
            /\ response.result.analysis.framework = "Unknown"
            /\ response.result.analysis.missingConfigs # <<>>
    /\ thrown # "" =>
            /\ thrown = "Repository analysis failed: " \o EscapedException
            /\ StepFailed(analysisStep)
            /\ Len(steps) = 1
            /\ analysis = Null
            /\ result = Null
            /\ Answered => response.status = 500

\* a request for a repository without a readable manifest was answered with
\* an AgentResult
C19_Witness ==
    /\ ManifestFailed
    /\ Answered
    /\ response.status = 200
    /\ response.result # Null
    /\ response.result.analysis.framework = "Unknown"

(***************************************************************************)
(* C20: the Vercel config generator emits a config for every framework of  *)
(* its lookup tables, includes env var placeholders exactly when at least  *)
(* one env var was detected, and emits nothing only when the framework is  *)
(* not recognized.                                                         *)
(***************************************************************************)
\* the frameworks the cases of getOutputDirectory and getFrameworkConfig name
TableFrameworks == {"Next.js", "React", "Vite", "Gatsby", "Nuxt", "Vue", "Svelte", "Astro"}

\* the config generated for the same analysis had no env var been detected
WithoutEnvVars == generateVercelJsonFile([analysis EXCEPT !.envVarsDetected = <<>>])

C20_VercelConfig ==
    pc = "generated" =>
        /\ analysis.framework \in TableFrameworks => result.vercelJson # ""
        /\ result.vercelJson # "" =>
              (Len(analysis.envVarsDetected) > 0 <=> result.vercelJson # WithoutEnvVars)

(***************************************************************************)
(* C21: for a customer without subscription holding n ship credits, under  *)
(* every interleaving of concurrent requests the number of requests        *)
(* answered with an AI result never exceeds n.                             *)
(***************************************************************************)
\* the requests answered 200 with a result
Served == {r \in DOMAIN requests : requests[r].status = 200}

C21_NoCreditSpentTwice ==
    requests # <<>> =>
        Cardinality(Served) <= getShipCredits(billingBefore.paymentIntents)

(***************************************************************************)
(* C22: when k calls of consumeShipCredit of one customer have returned    *)
(* true, under any interleaving of their list and update steps, the        *)
(* customer's credits have decreased by exactly k.                         *)
(***************************************************************************)
ReturnedTrue == {r \in DOMAIN requests : requests[r].consumed = "true"}

C22_NoLostUpdate ==
    requests # <<>> =>
        getShipCredits(billingBefore.paymentIntents) - getShipCredits(paymentIntents)
            = Cardinality(ReturnedTrue)

(***************************************************************************)
(* C23: the stages of a run execute strictly in the order Analyze,         *)
(* CodeInsightAgent, ContentAgent, Merge, Done: the step of a stage is     *)
(* created only after the step of the previous stage is done or error, at  *)
(* most one step is running at any time, and the two agents never run      *)
(* concurrently.                                                           *)
(***************************************************************************)
Terminal(step) == step.status \in {"done", "error"}

Running == {i \in 1..Len(steps) : steps[i].status = "running"}

C23_StageOrder ==
    /\ Len(steps) <= mergeStep
    /\ \A i \in 1..Len(steps) : steps[i].id = ToString(i)
    /\ \A i \in 1..(Len(steps) - 1) : Terminal(steps[i])
    /\ Cardinality(Running) <= 1
    /\ blackboxCalls # <<>> => (Len(steps) >= blackboxStep /\ Terminal(steps[analysisStep]))
    /\ openaiCalls # <<>> => (Len(steps) >= openaiStep /\ Terminal(steps[blackboxStep]))
    /\ result # Null =>
          (Len(steps) = mergeStep /\ \A i \in 1..Len(steps) : Terminal(steps[i]))

\* a step is created running after the previous ones ended, and an agent
\* issues a request only while its own step is the running one
C23_StageStep ==
    /\ Len(steps') = Len(steps) + 1 =>
          /\ steps'[Len(steps')].status = "running"
          /\ \A i \in 1..Len(steps) : Terminal(steps[i]) /\ steps'[i] = steps[i]
    /\ Len(blackboxCalls') > Len(blackboxCalls) =>
          (Running = {blackboxStep} /\ Len(openaiCalls') = 0)
    /\ Len(openaiCalls') > Len(openaiCalls) =>
          (Running = {openaiStep} /\ blackboxCalls' = blackboxCalls)

C23_StagesInOrder == []C23_StageOrder /\ [][C23_StageStep]_vars

\* a run went through its four stages, the code-insight agent having failed
C23_Witness ==
    /\ result # Null
    /\ Len(steps) = mergeStep
    /\ steps[blackboxStep].status = "error"
    /\ steps[openaiStep].status = "done"
    /\ openaiCalls # <<>>

(***************************************************************************)
(* C24: each stage appends exactly one AgentStep, whose status only moves  *)
(* pending -> running -> done or running -> error, and onStep is invoked   *)
(* on every one of these transitions, the creation of the step included.   *)
(***************************************************************************)
StatusMoves == {<<"pending", "running">>, <<"running", "done">>, <<"running", "error">>}

\* the last callback for the step with this id carried this status
CalledWith(kept, id, status) ==
    \E k \in 1..Len(kept) : kept[k].id = id /\ kept[k].status = status

C24_OneStepPerStage ==
    /\ stepCounter = Len(steps)
    /\ \A i \in 1..Len(steps) : steps[i].status \in {"pending", "running", "done", "error"}

C24_Transition ==
    steps' # <<>> =>
        /\ Len(steps') \in {Len(steps), Len(steps) + 1}
        /\ Len(steps') = Len(steps) + 1 =>
              CalledWith(routeSteps', steps'[Len(steps')].id, steps'[Len(steps')].status)
        /\ \A i \in 1..Len(steps) :
              steps'[i].status # steps[i].status =>
                  /\ <<steps[i].status, steps'[i].status>> \in StatusMoves
                  /\ CalledWith(routeSteps', steps'[i].id, steps'[i].status)

C24_StepLifecycle == []C24_OneStepPerStage /\ [][C24_Transition]_vars

\* the four stages have each appended their step; one ended in error and the
\* callbacks have reported every end
C24_Witness ==
    /\ Len(steps) = mergeStep
    /\ steps[openaiStep].status = "error"
    /\ steps[mergeStep].status = "done"
    /\ \A i \in 1..Len(steps) : CalledWith(routeSteps, steps[i].id, steps[i].status)

(***************************************************************************)
(* C25: runBlackboxAgent issues exactly three model requests per           *)
(* invocation (analysis, Vercel config, env template), each once and in    *)
(* that order, whatever subset of them fails; a failing request never      *)
(* prevents the later ones, and in the result only the failed parts are    *)
(* replaced by their local defaults.                                       *)
(***************************************************************************)
\* the requests issued when the agent is about to issue the one of this place
IssuedBefore ==
    CASE pc = "bb_analysis" -> 0
      [] pc = "bb_vercel" -> 1
      [] pc = "bb_env" -> 2
      [] OTHER -> 3

C25_ThreeRequests ==
    /\ blackboxCalls # <<>> => Len(blackboxCalls) = IssuedBefore
    /\ pc \in {"bb_analysis", "bb_vercel", "bb_env"} => Len(blackboxCalls) = IssuedBefore
    /\ blackboxResult # Null =>
          /\ Len(blackboxCalls) = 3
          /\ blackboxCalls[1] = "fail" <=>
                blackboxResult.codeInsights = DegradedInsights(analysis)
          /\ blackboxCalls[1] = "fail" =>
                (blackboxResult.riskAssessment = "" /\ blackboxResult.suggestedScripts = {})
          /\ blackboxCalls[2] = "fail" =>
                blackboxResult.vercelConfig = generateDefaultVercelConfig(analysis)
          /\ blackboxCalls[2] = "ok" =>
                blackboxResult.vercelConfig
                    \in {"{\"version\": \"2\"}", generateDefaultVercelConfig(analysis)}
          /\ blackboxCalls[3] = "fail" <=>
                blackboxResult.envTemplate = generateDefaultEnvTemplate(analysis)

\* the first request failed, the later two were answered, and the result keeps
\* the model's Vercel config and env template
C25_Witness ==
    /\ blackboxResult # Null
    /\ blackboxCalls = <<"fail", "ok", "ok">>
    /\ blackboxResult.codeInsights = DegradedInsights(analysis)
    /\ blackboxResult.vercelConfig = "{\"version\": \"2\"}"
    /\ blackboxResult.envTemplate = "# from the model\nAPI_KEY=changeme"

C25_WitnessAllFail ==
    /\ blackboxResult # Null
    /\ blackboxCalls = <<"fail", "fail", "fail">>

(***************************************************************************)
(* C26: in the content agent's loop, after every round in which the model  *)
(* requested tool calls, the transcript holds exactly one tool-result      *)
(* message for each requested tool call, in request order, before the next *)
(* completion is requested; a tool execution error or an unknown tool name *)
(* becomes the text of that result and is never raised.                    *)
(***************************************************************************)
\* the assistant messages that request tool calls
ToolRounds ==
    {i \in 1..Len(messages) :
        messages[i].role = "assistant" /\ messages[i].tool_calls # <<>>}

\* the next completion has been or is about to be requested after round i
Continued(i) ==
    \/ pc \in {"oa_request", "oa_done"}
    \/ \E j \in ToolRounds : j > i
    \/ openaiCalls # <<>> /\ openaiCalls[Len(openaiCalls)] = "fail"

\* round i is followed by the results of its calls, one each and in order,
\* and by no further tool message
Answered_(i) ==
    LET calls == messages[i].tool_calls IN
    /\ i + Len(calls) <= Len(messages)
    /\ \A k \in 1..Len(calls) :
          /\ messages[i + k].role = "tool"
          /\ messages[i + k].tool_call_id = calls[k].id
          /\ calls[k].name \notin {"read_repo_file", "list_repo_files"} =>
                messages[i + k].content = "Unknown tool"
    /\ i + Len(calls) < Len(messages) => messages[i + Len(calls) + 1].role # "tool"

C26_ToolResults ==
    messages # <<>> =>
        /\ \A i \in ToolRounds : Continued(i) => Answered_(i)
        /\ \A i \in 1..Len(messages) :
              messages[i].role = "tool" => \E j \in ToolRounds : j < i
        /\ thrown # "" =>
              \/ openaiCalls[Len(openaiCalls)] = "fail"
              \/ \E k \in 1..Len(messages[Len(messages) - 1].tool_calls) :
                    ~Parses(messages[Len(messages) - 1].tool_calls[k].arguments)

\* the model asked for an unknown tool and a file read while GitHub raised:
\* both calls have their result and the next completion is due
C26_Witness ==
    /\ pc = "oa_request"
    /\ \E i \in ToolRounds :
          /\ Len(messages[i].tool_calls) = 2
          /\ messages[i + 1].content = "Unknown tool"
          /\ messages[i + 2].content = "Tool error: Error: socket hang up"
          /\ thrown = ""

(***************************************************************************)
(* C27: an AgentStep is frozen once it is terminal: after its status has   *)
(* become done or error, its status, label and detail never change again   *)
(* and no later callback reports it with other values; all steps of a      *)
(* returned AgentResult are terminal.                                      *)
(***************************************************************************)
\* the terminal steps of a list are the same in the list one step later
Frozen(before, after) ==
    \A i \in 1..Len(before) :
        (Terminal(before[i]) /\ i <= Len(after)) => after[i] = before[i]

C27_Frozen ==
    (steps' # <<>> \/ routeSteps' # <<>>) =>
        /\ Len(steps') >= Len(steps)
        /\ Len(routeSteps') >= Len(routeSteps)
        /\ Frozen(steps, steps')
        /\ Frozen(routeSteps, routeSteps')

C27_ResultTerminal ==
    /\ result # Null => \A i \in 1..Len(result.steps) : Terminal(result.steps[i])
    /\ (response.status = 200 /\ response.result # Null) =>
          \A i \in 1..Len(response.steps) : Terminal(response.steps[i])

C27_FrozenSteps == []C27_ResultTerminal /\ [][C27_Frozen]_vars

\* both agents failed and the run was answered: their steps kept the error
\* they ended with while the later stages ran
C27_Witness ==
    /\ response.status = 200
    /\ result # Null
    /\ Len(result.steps) = mergeStep
    /\ result.steps[blackboxStep].status = "error"
    /\ result.steps[openaiStep].status = "error"
    /\ result.steps[mergeStep].status = "done"

(***************************************************************************)
(* C28: in the Merge stage, when the code-insight agent succeeded,         *)
(* vercelJson and envTemplate are the agent's outputs and come from the    *)
(* template generator only when the agent's output is absent or empty, and *)
(* packageJsonScripts is the agent's suggestedScripts exactly when it has  *)
(* at least one entry, otherwise what generatePackageJsonScripts gives for *)
(* the analysis.                                                           *)
(***************************************************************************)
C28_MergePreference ==
    (result # Null /\ blackboxResult # Null) =>
        /\ blackboxResult.vercelConfig # "" =>
              result.vercelJson = blackboxResult.vercelConfig
        /\ blackboxResult.vercelConfig = "" =>
              result.vercelJson = generateVercelJsonFile(result.analysis)
        /\ blackboxResult.envTemplate # "" =>
              result.envTemplate = blackboxResult.envTemplate
        /\ blackboxResult.envTemplate = "" =>
              result.envTemplate = generateEnvTemplate(result.analysis)
        /\ Cardinality(blackboxResult.suggestedScripts) >= 1 =>
              result.packageJsonScripts = blackboxResult.suggestedScripts
        /\ Cardinality(blackboxResult.suggestedScripts) = 0 =>
              result.packageJsonScripts = generatePackageJsonScripts(result.analysis)

\* the agent succeeded with an empty env template and without suggestions
\* for a repository whose scripts the generator writes
C28_Witness ==
    /\ result # Null
    /\ blackboxResult # Null
    /\ blackboxResult.envTemplate = ""
    /\ blackboxResult.suggestedScripts = {}
    /\ result.packageJsonScripts # {}
    /\ result.envTemplate # ""

\* the agent's own outputs are the ones merged
C28_WitnessAgent ==
    /\ result # Null
    /\ blackboxResult # Null
    /\ result.envTemplate = "# from the model\nAPI_KEY=changeme"
    /\ result.vercelJson = blackboxResult.vercelConfig
    /\ result.packageJsonScripts = {<<"build", "npm run compile">>, <<"start", "node dist/main.js">>}

(***************************************************************************)
(* C29: during and after a run the step list kept by POST /api/agent       *)
(* equals the orchestrator's steps array after every onStep callback: the  *)
(* same ids in the same order, distinct and increasing, with the same      *)
(* label, status and detail; when the Analyze stage fails, the error       *)
(* response carries the analysis step with status error.                   *)
(***************************************************************************)
\* the ids of a step list count up from "1"
IdsIncreasing(list) == \A i \in 1..Len(list) : list[i].id = ToString(i)

C29_RouteMirrorsSteps ==
    /\ Len(routeSteps) = Len(steps)
    /\ IdsIncreasing(steps)
    /\ IdsIncreasing(routeSteps)
    /\ \A i \in 1..Len(steps) :
          /\ routeSteps[i].label = steps[i].label
          /\ routeSteps[i].status = steps[i].status
          /\ routeSteps[i].detail = steps[i].detail
    /\ response.status = 200 => response.steps = steps
    /\ (steps # <<>> /\ steps[analysisStep].status = "error") =>
          /\ thrown # ""
          /\ response.status = 500
          /\ Len(response.steps) = 1
          /\ response.steps[1].id = "1"
          /\ response.steps[1].label = "Analyzing repository structure"
          /\ response.steps[1].status = "error"
          /\ response.steps[1].detail = steps[analysisStep].detail

\* a progress callback relabelled the running step of the code-insight
\* agent after the analysis step was completed
C29_Witness ==
    /\ Len(steps) = blackboxStep
    /\ steps[blackboxStep].status = "running"
    /\ steps[blackboxStep].label = "Blackbox AI: Generating Vercel config"
    /\ routeSteps[blackboxStep].label = "Blackbox AI: Generating Vercel config"
    /\ routeSteps[analysisStep].status = "done"

\* the Analyze stage failed and the run was answered with 500
C29_WitnessFailure ==
    /\ response.status = 500
    /\ steps # <<>>
    /\ response.steps[1].status = "error"
    /\ result = Null

(***************************************************************************)
(* C30: getFileTree(owner, repo, maxDepth) terminates for every repository *)
(* tree and returns only file entries whose containing directory is at     *)
(* depth <= maxDepth, never listing a directory deeper than maxDepth; a    *)
(* failed or not-found directory listing contributes no entries and never  *)
(* raises an exception to the caller.                                      *)
(***************************************************************************)
\* the directory an entry lies in
ContainingDir(path) == SubSeq(path, 1, Len(path) - 1)

\* the directory and all directories above it answered with a listing
ListedDown(dir) ==
    \A n \in 0..Len(dir) :
        /\ SubSeq(dir, 1, n) \in DirPaths
        /\ tree[SubSeq(dir, 1, n)].answer = "listing"

\* the directories whose file the call has to return
Reached == {dir \in DirPaths : Len(dir) <= maxDepth /\ ListedDown(dir) /\ tree[dir].hasFile}

C30_FileTree ==
    pc = "tree_returned" =>
        /\ thrown = ""
        /\ \A i \in 1..Len(fileTree) :
              /\ fileTree[i].type = "file"
              /\ Len(ContainingDir(fileTree[i].path)) <= maxDepth
              /\ ContainingDir(fileTree[i].path) \in Reached
        /\ \A i \in 1..Len(fetched) : Len(fetched[i]) <= maxDepth
        /\ \A i, j \in 1..Len(fetched) : fetched[i] = fetched[j] => i = j
        /\ {ContainingDir(fileTree[i].path) : i \in 1..Len(fileTree)} = Reached
        /\ Len(fileTree) = Cardinality(Reached)

\* with maxDepth 1 the call returned the files of the root and of src,
\* left out the file of src/lib, and went on after the listing of docs
\* had failed
C30_Witness ==
    /\ pc = "tree_returned"
    /\ maxDepth = 1
    /\ tree[<<"docs">>].answer = "error"
    /\ tree[<<"docs">>].hasFile
    /\ tree[<<"src", "lib">>].answer = "listing"
    /\ tree[<<"src", "lib">>].hasFile
    /\ Len(fileTree) = 2
    /\ fileTree[1].path = <<"src", "index.ts">>
    /\ fileTree[2].path = <<"index.ts">>
    /\ fetched = <<RootPath, <<"docs">>, <<"src">> >>

=============================================================================
